---- MODULE Spec2Model ----
(***************************************************************************)
(* share-tracker: the SQLite cache layer (backend/database.py), the news   *)
(* service (backend/news_service.py), the prediction service               *)
(* (backend/prediction_service.py) and the market overview fan-out         *)
(* (backend/market_service.py, api/overview.py).                           *)
(*                                                                         *)
(* Time.  `now' is the UTC wall clock in whole seconds.  SQLite stamps a   *)
(* row with CURRENT_TIMESTAMP, which is UTC at one-second resolution.  The *)
(* reads and the purge compute their cutoff from Python's datetime.now(),  *)
(* the host's naive local time: local = now + tz.  Both end up as text in  *)
(* the same "YYYY-MM-DD HH:MM:SS" layout and are compared as text, which   *)
(* orders them as the integers used here.                                  *)
(***************************************************************************)
EXTENDS Integers, Sequences, FiniteSets, TLC

\* ----------------------------------------------------------------- bounds
\* Clock advances in a run, and rows inserted in a run (all tables together).
MaxTicks == 2
MaxRows == 2
\* Service calls in a run.
MaxCalls == 2

\* ------------------------------------------------------ program constants
CACHE_TIMEOUT == 300
NEWS_CACHE_TIMEOUT == 1800
PREDICTION_MAX_AGE == 3600
CLEANUP_DAYS == 7
SECONDS_PER_DAY == 86400
MOCK_SECOND_ITEM_AGE == 21600
\* Sentiment scores are in hundredths: 50 is +0.5, -20 is -0.2.
MOCK_SCORE_1 == 50
MOCK_SCORE_2 == -20

\* ---------------------------------------------------------- input domains
Symbols == {"TCS.NS", "INFY.NS"}
\* Python's None, passed as the symbol of market-wide news.
None == "<None>"
NewsKeys == Symbols \cup {None}
\* Offsets of the host's local time from UTC, in seconds.
TzOffsets == {-3600, 0, 3600}
\* Clock advances, in seconds.
Steps == {1, 299, 1800}
\* Clock advances between service calls, in seconds.
SvcSteps == {1800, 3600}
\* max_age_seconds arguments of the reads.
MaxAges == {0, CACHE_TIMEOUT, NEWS_CACHE_TIMEOUT, PREDICTION_MAX_AGE}
\* days arguments of cleanup_old_data.
CleanupDays == {0, CLEANUP_DAYS}
Prices == {100, 101}
\* Close prices handed to predict_with_sentiment, in hundredths.
PriceSeries == {<<10000, 10000, 10000>>, <<10000, 10200, 10100, 10500>>}
\* The price series the forecast is computed of on its own: flat, rising,
\* falling, shorter than p + 1 (a single price, two), longer, with a price 0.
CoreSeries ==
    PriceSeries \cup
    {<<1000, 600, 200>>, <<10000>>, <<10000, 10500>>,
     <<10000, 10200, 10100, 10300, 10200, 10400, 10300>>,
     <<0>>, <<0, 500>>, <<10000, 0>>, <<0, 0, 0>>}
\* What TextBlob may make of the two placeholder texts, in hundredths.
Polarities == {[mock1 |-> 50, mock2 |-> -20], [mock1 |-> 22, mock2 |-> 7]}
\* Articles as the news service hands them to cache_news.
Article(title, publishedAt, score) ==
    [title |-> title, publishedAt |-> publishedAt, urlToImage |-> "img",
     sentiment_score |-> score]
Batches ==
    {<<Article("t1", -10, 50)>>,
     <<Article("t2", -5, -20), Article("t1", -10, 50)>>}
\* forecast_data dicts handed to cache_prediction.
Forecasts == {[values |-> <<100, 100>>, news_count |-> 0], [values |-> <<101, 102>>, news_count |-> 2]}

VARIABLES
    now,            \* the store's clock: UTC, whole seconds
    tz,             \* offset of the host's local time from UTC, seconds
    ticks,          \* clock advances so far
    stock_prices,   \* table stock_prices
    news_cache,     \* table news_cache
    predictions,    \* table predictions
    last,           \* the last Database call made directly, and its result
    api_key,        \* NewsService.api_key is set (config.NEWS_API_KEY)
    polarity,       \* TextBlob's polarity of the two placeholder texts
    ret,            \* the last service call, what it did and returned
    overview,       \* the market overview call in progress: which, and where
    futures,        \* the futures of its per-symbol fetches, in submit order
    gathered,       \* what its main thread has taken from the futures
    response,       \* what it returned
    writer,         \* the cache_news call in progress, statement by statement
    batches,        \* the row ids each committed cache_news call inserted
    calc,           \* the last computation of the core made on its own
    threads,        \* the predict calls of the request threads, step by step
    socketio        \* the WebSocket side: active_connections, clients, broadcaster

dbVars == <<stock_prices, news_cache, predictions>>
svcVars == <<api_key, polarity, ret>>
ovVars == <<overview, futures, gathered, response>>
coreVars == <<writer, batches, calc, threads, socketio>>
vars == <<now, tz, ticks, stock_prices, news_cache, predictions, last, api_key, polarity, ret,
          overview, futures, gathered, response, writer, batches, calc, threads,
          socketio>>

\* ---------------------------------------------------------------- helpers
Range(s) == {s[i] : i \in DOMAIN s}

\* All orderings of the rows in set S.
RECURSIVE Orderings(_)
Orderings(S) ==
    IF S = {} THEN {<<>>}
    ELSE UNION {{<<r>> \o rest : rest \in Orderings(S \ {r})} : r \in S}

\* json.dumps / json.loads: the cached values hold only str keys, str, int,
\* float, list and dict values, which the JSON text carries unchanged.
json_dumps(v) == [json |-> v]
json_loads(t) == t.json

\* datetime.now(): the host's naive local time.
datetime_now == now + tz

\* ------------------------------------------------------------ the tables
\* A table is its rows in insertion order and the next AUTOINCREMENT id.
EmptyTable == [rows |-> <<>>, next |-> 1]

\* INSERT INTO stock_prices: timestamp DEFAULT CURRENT_TIMESTAMP.
\* change_percent and volume are stored and read back like price.
cache_stock_price(tbl, symbol, price, data) ==
    [rows |-> Append(tbl.rows, [id |-> tbl.next, symbol |-> symbol, price |-> price,
                                data |-> json_dumps(data), timestamp |-> now]),
     next |-> tbl.next + 1]

\* SELECT * FROM stock_prices WHERE symbol = ? AND timestamp > ?
FreshPrices(tbl, symbol, max_age_seconds) ==
    LET cutoff_time == datetime_now - max_age_seconds
    IN {r \in Range(tbl.rows) : r.symbol = symbol /\ r.timestamp > cutoff_time}

\* ORDER BY timestamp DESC LIMIT 1.  SQL leaves the order of rows with equal
\* sort keys unspecified: any row with the greatest timestamp may come first.
NewestByTimestamp(S) == {r \in S : \A q \in S : q.timestamp <= r.timestamp}

\* The values get_cached_stock_price may return: <<>> is None.
get_cached_stock_price(tbl, symbol, max_age_seconds) ==
    LET fresh == FreshPrices(tbl, symbol, max_age_seconds)
    IN IF fresh = {} THEN {<<>>}
       ELSE {<<[symbol |-> r.symbol, price |-> r.price, data |-> json_loads(r.data),
                timestamp |-> r.timestamp]>> : r \in NewestByTimestamp(fresh)}

\* One INSERT INTO news_cache per article, one commit: cached_at DEFAULT
\* CURRENT_TIMESTAMP.  description, url and source are stored and read back
\* like title; urlToImage has no column.
RECURSIVE cache_news(_, _, _)
cache_news(tbl, symbol, articles) ==
    IF articles = <<>> THEN tbl
    ELSE LET article == Head(articles)
             row == [id |-> tbl.next, symbol |-> symbol, title |-> article.title,
                     published_at |-> article.publishedAt,
                     sentiment_score |-> article.sentiment_score, cached_at |-> now]
         IN cache_news([rows |-> Append(tbl.rows, row), next |-> tbl.next + 1],
                       symbol, Tail(articles))

\* A read that selects every fresh row whatever the symbol: what the read of
\* a symbol's news is not.
FreshNewsOfAnySymbol(tbl, symbol, max_age_seconds) ==
    LET cutoff_time == datetime_now - max_age_seconds
    IN {r \in Range(tbl.rows) : r.cached_at > cutoff_time}

\* `if symbol:` selects on the symbol; otherwise every fresh row is selected.
FreshNews(tbl, symbol, max_age_seconds) ==
    LET cutoff_time == datetime_now - max_age_seconds
    IN IF symbol # None
       THEN {r \in Range(tbl.rows) : r.symbol = symbol /\ r.cached_at > cutoff_time}
       ELSE {r \in Range(tbl.rows) : r.cached_at > cutoff_time}

\* ORDER BY published_at DESC, rows with equal published_at in any order.
ByPublishedDesc(S) ==
    {o \in Orderings(S) :
        \A i, j \in DOMAIN o : i < j => o[i].published_at >= o[j].published_at}

\* The lists get_cached_news may return: [dict(row) for row in rows].
get_cached_news(tbl, symbol, max_age_seconds) ==
    ByPublishedDesc(FreshNews(tbl, symbol, max_age_seconds))

\* A put that keeps one row per symbol (INSERT OR REPLACE on the symbol): what
\* the INSERT of cache_prediction is not.
cache_prediction_replacing(tbl, symbol, forecast_data, sentiment_score) ==
    [rows |-> Append(SelectSeq(tbl.rows, LAMBDA r : r.symbol # symbol),
                     [id |-> tbl.next, symbol |-> symbol,
                      forecast_data |-> json_dumps(forecast_data),
                      sentiment_score |-> sentiment_score, created_at |-> now]),
     next |-> tbl.next + 1]

\* INSERT INTO predictions: created_at DEFAULT CURRENT_TIMESTAMP.
cache_prediction(tbl, symbol, forecast_data, sentiment_score) ==
    [rows |-> Append(tbl.rows, [id |-> tbl.next, symbol |-> symbol,
                                forecast_data |-> json_dumps(forecast_data),
                                sentiment_score |-> sentiment_score, created_at |-> now]),
     next |-> tbl.next + 1]

FreshPredictions(tbl, symbol, max_age_seconds) ==
    LET cutoff_time == datetime_now - max_age_seconds
    IN {r \in Range(tbl.rows) : r.symbol = symbol /\ r.created_at > cutoff_time}

\* ORDER BY created_at DESC LIMIT 1.
NewestByCreated(S) == {r \in S : \A q \in S : q.created_at <= r.created_at}

\* The values get_cached_prediction may return: <<>> is None.
get_cached_prediction(tbl, symbol, max_age_seconds) ==
    LET fresh == FreshPredictions(tbl, symbol, max_age_seconds)
    IN IF fresh = {} THEN {<<>>}
       ELSE {<<[symbol |-> r.symbol, forecast_data |-> json_loads(r.forecast_data),
                sentiment_score |-> r.sentiment_score, created_at |-> r.created_at]>>
             : r \in NewestByCreated(fresh)}

\* DELETE FROM t WHERE <stamp> < cutoff, for each of the three tables.
DeleteOlder(tbl, stamp, cutoff_time) ==
    [rows |-> SelectSeq(tbl.rows, LAMBDA r : ~(r[stamp] < cutoff_time)), next |-> tbl.next]

\* The column of each table that holds the row's CURRENT_TIMESTAMP.
StampOfPrice == "timestamp"
StampOfNews == "cached_at"
StampOfPrediction == "created_at"

\* A cutoff that takes the days for seconds: what timedelta(days=days) is not.
cleanup_cutoff_in_seconds(days) == datetime_now - days

cleanup_cutoff(days) == datetime_now - days * SECONDS_PER_DAY

\* ------------------------------------------------- record of the last call
\* What the last call was given (a put, a purge: its age in max_age) or
\* returned (a get); a clock advance leaves NoCall.
Call(op, kind, key, max_age, value) ==
    [op |-> op, kind |-> kind, key |-> key, max_age |-> max_age, value |-> value]

NoCall == Call("none", "none", None, 0, <<>>)

\* No service call made yet.
NoRet == [op |-> "none", seq |-> 0]

Inserted == (stock_prices.next - 1) + (news_cache.next - 1) + (predictions.next - 1)

\* No market overview call has been made.
OverviewIdle ==
    /\ overview = [impl |-> "none", pc |-> "idle"]
    /\ futures = <<>>
    /\ gathered = <<>>
    /\ response = <<>>

\* No WebSocket client has connected; the broadcast task sleeps.
NoSocket == [active_connections |-> 0, clients |-> <<>>, broadcaster |-> "sleep", connects |-> 0]

\* No cache_news call is in progress; nothing has been computed.
NoWriter == [pc |-> "idle", key |-> None, articles |-> <<>>, pending |-> <<>>]
NoCalc == [op |-> "none"]
CoreIdle ==
    /\ writer = NoWriter
    /\ batches = {}
    /\ calc = NoCalc
    /\ threads = <<>>
    /\ socketio = NoSocket

\* ------------------------------------------------ Database, called directly
Init ==
    /\ now = 0
    /\ tz \in TzOffsets
    /\ ticks = 0
    /\ stock_prices = EmptyTable
    /\ news_cache = EmptyTable
    /\ predictions = EmptyTable
    /\ last = NoCall
    /\ api_key = FALSE
    /\ polarity = [mock1 |-> MOCK_SCORE_1, mock2 |-> MOCK_SCORE_2]
    /\ ret = NoRet
    /\ OverviewIdle
    /\ CoreIdle

\* The clock advances between calls.
Tick(d) ==
    /\ ticks < MaxTicks
    /\ now' = now + d
    /\ ticks' = ticks + 1
    /\ last' = NoCall
    /\ UNCHANGED <<tz, dbVars, svcVars, ovVars, coreVars>>

PutPrice(symbol, price) ==
    /\ Inserted + 1 <= MaxRows
    /\ stock_prices' = cache_stock_price(stock_prices, symbol, price, [currentPrice |-> price])
    /\ last' = (Call("put", "price", symbol, 0,
                           <<[symbol |-> symbol, price |-> price, data |-> [currentPrice |-> price]]>>))
    /\ UNCHANGED <<now, tz, ticks, news_cache, predictions, svcVars, ovVars, coreVars>>

GetPrice(symbol, max_age) ==
    /\ \E res \in get_cached_stock_price(stock_prices, symbol, max_age) :
          last' = (Call("get", "price", symbol, max_age, res))
    /\ UNCHANGED <<now, tz, ticks, dbVars, svcVars, ovVars, coreVars>>

PutNews(symbol, articles) ==
    /\ Inserted + Len(articles) <= MaxRows
    /\ news_cache' = cache_news(news_cache, symbol, articles)
    /\ last' = (Call("put", "news", symbol, 0, articles))
    /\ UNCHANGED <<now, tz, ticks, stock_prices, predictions, svcVars, ovVars, coreVars>>

GetNews(symbol, max_age) ==
    /\ \E res \in get_cached_news(news_cache, symbol, max_age) :
          last' = (Call("get", "news", symbol, max_age, res))
    /\ UNCHANGED <<now, tz, ticks, dbVars, svcVars, ovVars, coreVars>>

PutPrediction(symbol, forecast_data) ==
    /\ Inserted + 1 <= MaxRows
    /\ predictions' = cache_prediction(predictions, symbol, forecast_data, 0)
    /\ last' = (Call("put", "prediction", symbol, 0,
                           <<[symbol |-> symbol, forecast_data |-> forecast_data,
                              sentiment_score |-> 0]>>))
    /\ UNCHANGED <<now, tz, ticks, stock_prices, news_cache, svcVars, ovVars, coreVars>>

GetPrediction(symbol, max_age) ==
    /\ \E res \in get_cached_prediction(predictions, symbol, max_age) :
          last' = (Call("get", "prediction", symbol, max_age, res))
    /\ UNCHANGED <<now, tz, ticks, dbVars, svcVars, ovVars, coreVars>>

\* Database.cleanup_old_data(days)
Cleanup(days) ==
    /\ stock_prices' = DeleteOlder(stock_prices, StampOfPrice, cleanup_cutoff(days))
    /\ news_cache' = DeleteOlder(news_cache, StampOfNews, cleanup_cutoff(days))
    /\ predictions' = DeleteOlder(predictions, StampOfPrediction, cleanup_cutoff(days))
    /\ last' = Call("purge", "all", None, days * SECONDS_PER_DAY, <<>>)
    /\ UNCHANGED <<now, tz, ticks, svcVars, ovVars, coreVars>>

Next ==
    \/ \E d \in Steps : Tick(d)
    \/ \E s \in Symbols, p \in Prices : PutPrice(s, p)
    \/ \E s \in Symbols, a \in MaxAges : GetPrice(s, a)
    \/ \E k \in NewsKeys, b \in Batches : PutNews(k, b)
    \/ \E k \in NewsKeys, a \in MaxAges : GetNews(k, a)
    \/ \E s \in Symbols, f \in Forecasts : PutPrediction(s, f)
    \/ \E s \in Symbols, a \in MaxAges : GetPrediction(s, a)
    \/ \E d \in CleanupDays : Cleanup(d)

Spec == Init /\ [][Next]_vars

\* ------------------------------------------------------- claims C1 .. C4
\* The time a returned entry was written, per record kind.
WrittenAt(kind, entry) ==
    CASE kind = "price" -> entry.timestamp
      [] kind = "news" -> entry.cached_at
      [] kind = "prediction" -> entry.created_at

\* The rows of a kind stored under a key.
RowsOf(kind, key) ==
    CASE kind = "price" -> {r \in Range(stock_prices.rows) : r.symbol = key}
      [] kind = "news" -> {r \in Range(news_cache.rows) : r.symbol = key}
      [] kind = "prediction" -> {r \in Range(predictions.rows) : r.symbol = key}

\* What a get returned, as the value that was put: the stamp the store added
\* is left out of a price or prediction entry; a news list is compared as is.
Returned(call) ==
    CASE call.kind = "price" ->
           [i \in DOMAIN call.value |->
              [symbol |-> call.value[i].symbol, price |-> call.value[i].price,
               data |-> call.value[i].data]]
      [] call.kind = "prediction" ->
           [i \in DOMAIN call.value |->
              [symbol |-> call.value[i].symbol,
               forecast_data |-> call.value[i].forecast_data,
               sentiment_score |-> call.value[i].sentiment_score]]
      [] call.kind = "news" -> call.value

\* The items of a news list or batch, whatever their field names.
Titles(items) == [i \in DOMAIN items |-> items[i].title]

\* C1: a get returns an entry only if (time of the read) - (time the entry was
\* written) <= max_age; an entry older than max_age is never returned.
C1_NoStaleRead ==
    last.op = "get" =>
        \A i \in DOMAIN last.value :
            now - WrittenAt(last.kind, last.value[i]) <= last.max_age

\* C2: a put(key, v) followed immediately by get(key, max_age) with max_age > 0
\* returns exactly v (same items, same fields, same order); get(key, 0) after
\* any nonzero elapsed time since the key's puts returns absent.
C2_RoundTrip ==
    [][/\ (last.op = "put" /\ last'.op = "get" /\ last'.kind = last.kind
             /\ last'.key = last.key /\ last'.max_age > 0)
            => Returned(last') = last.value
       /\ (last'.op = "get" /\ last'.max_age = 0
             /\ \A r \in RowsOf(last'.kind, last'.key) : WrittenAt(last'.kind, r) < now')
            => last'.value = <<>>]_vars

\* The rows a key held before the put just made (the put's own rows are the
\* last Len(call.value) ids of its table).
TableOf(kind) ==
    CASE kind = "price" -> stock_prices
      [] kind = "news" -> news_cache
      [] kind = "prediction" -> predictions

EarlierRows(call) ==
    {r \in RowsOf(call.kind, call.key) : r.id < TableOf(call.kind).next - Len(call.value)}

\* C3: when two or more entries of a key are fresh (age <= max_age, equal
\* timestamps included), get returns the value of the last put only; for news,
\* the items of the most recently written batch and not the union.
C3_MostRecentWins ==
    [][(last.op = "put" /\ last'.op = "get" /\ last'.kind = last.kind
          /\ last'.key = last.key
          /\ \E r \in EarlierRows(last) : now - WrittenAt(last.kind, r) <= last'.max_age)
         => IF last.kind = "news"
            THEN /\ Len(last'.value) = Len(last.value)
                 /\ Range(Titles(last'.value)) = Range(Titles(last.value))
            ELSE Returned(last') = last.value]_vars

\* C4: a read of the global news key (symbol None) returns only items written
\* under the global key, and a per-symbol read returns no global item.
C4_GlobalKeyDistinct ==
    (last.op = "get" /\ last.kind = "news") =>
        \A i \in DOMAIN last.value : last.value[i].symbol = last.key

\* ============================================================ NewsService
\* What the news provider does when it is asked (requests.get to NewsAPI).
\*   ok             a response with status "ok" and a list of articles
\*   request_error  requests raises RequestException (timeout, connection
\*                  error, HTTP error status through raise_for_status)
\*   status_not_ok  a response whose JSON has a status other than "ok"
\*   malformed      a response whose JSON has not the expected shape (not an
\*                  object, an article without a source object): the
\*                  comprehension raises AttributeError
ProviderOutcomes == {"ok", "request_error", "status_not_ok", "malformed"}

\* Article lists of an "ok" response, newest first (sortBy publishedAt).
RawArticle(title, publishedAt) == [title |-> title, publishedAt |-> publishedAt]
ProviderBatches == {<<>>, <<RawArticle("t1", -10)>>}

\* What the provider may answer to one request.  Without an API key no
\* request is made and there is nothing to answer.
Responses ==
    IF api_key
    THEN {[outcome |-> "ok", batch |-> b] : b \in ProviderBatches}
         \cup {[outcome |-> o, batch |-> <<>>] : o \in ProviderOutcomes \ {"ok"}}
    ELSE {[outcome |-> "none", batch |-> <<>>]}

MARKET_QUERY == "stock market India OR NSE OR BSE OR Nifty OR Sensex"

\* symbol.replace('.NS', '').replace('.BO', ''), then company_map.get.
SearchQuery(symbol) ==
    CASE symbol = "TCS.NS" -> "Tata Consultancy Services"
      [] symbol = "INFY.NS" -> "Infosys"

MockTitle1(query) ==
    CASE query = "Tata Consultancy Services" -> "Tata Consultancy Services shows strong market performance"
      [] query = "Infosys" -> "Infosys shows strong market performance"
      [] query = MARKET_QUERY -> "stock market India OR NSE OR BSE OR Nifty OR Sensex shows strong market performance"

MockTitle2(query) ==
    CASE query = "Tata Consultancy Services" -> "Investors cautious about Tata Consultancy Services amid global uncertainty"
      [] query = "Infosys" -> "Investors cautious about Infosys amid global uncertainty"
      [] query = MARKET_QUERY -> "Investors cautious about stock market India OR NSE OR BSE OR Nifty OR Sensex amid global uncertainty"

Queries == {SearchQuery(s) : s \in Symbols} \cup {MARKET_QUERY}

\* TextBlob(text).sentiment.polarity of "<title> <description>", hundredths.
\* The library decides the polarity of the placeholder texts (polarity); the
\* provider's texts have the polarity listed here.
analyze_sentiment(title) ==
    CASE title \in {MockTitle1(q) : q \in Queries} -> polarity.mock1
      [] title \in {MockTitle2(q) : q \in Queries} -> polarity.mock2
      [] title = "t1" -> 30
      [] OTHER -> 0

get_mock_news(query) ==
    <<[title |-> MockTitle1(query), publishedAt |-> datetime_now,
       urlToImage |-> None, sentiment_score |-> MOCK_SCORE_1],
      [title |-> MockTitle2(query), publishedAt |-> datetime_now - MOCK_SECOND_ITEM_AGE,
       urlToImage |-> None, sentiment_score |-> MOCK_SCORE_2]>>

\* _fetch_news_from_api: what it returns, or that it raises; mock tells that
\* the placeholder batch was returned, http that the provider was asked.
\* The articles of a response carry no sentiment_score yet (0 stands for the
\* missing key, which fetch_stock_news sets before anything reads it).
fetch_news_from_api(query, outcome, batch) ==
    IF ~api_key
    THEN [raised |-> FALSE, news |-> get_mock_news(query), mock |-> TRUE, http |-> FALSE]
    ELSE CASE outcome = "ok" ->
                [raised |-> FALSE, mock |-> FALSE, http |-> TRUE,
                 news |-> [i \in DOMAIN batch |->
                             [title |-> batch[i].title, publishedAt |-> batch[i].publishedAt,
                              urlToImage |-> "img", sentiment_score |-> 0]]]
           [] outcome = "request_error" ->
                [raised |-> FALSE, news |-> get_mock_news(query), mock |-> TRUE, http |-> TRUE]
           [] outcome = "status_not_ok" ->
                [raised |-> FALSE, news |-> <<>>, mock |-> FALSE, http |-> TRUE]
           [] outcome = "malformed" ->
                [raised |-> TRUE, news |-> <<>>, mock |-> FALSE, http |-> TRUE]

\* for article in news: article['sentiment_score'] = analyze_sentiment(text)
AddSentiment(news) ==
    [i \in DOMAIN news |-> [news[i] EXCEPT !.sentiment_score = analyze_sentiment(news[i].title)]]

\* fetch_stock_news(symbol, use_cache) and fetch_market_news(use_cache), which
\* differ in the key (symbol or None) and the query.  write_ok: db.cache_news
\* succeeds (it raises when the store cannot be written).  The set of the runs
\* the call may take from table tbl: what it returns, the table it leaves, and
\* what it did on the way.
FetchNews(tbl, key, query, use_cache, outcome, batch, write_ok) ==
    LET cached == IF use_cache THEN get_cached_news(tbl, key, NEWS_CACHE_TIMEOUT) ELSE {<<>>}
        api == fetch_news_from_api(query, outcome, batch)
        news == AddSentiment(api.news)
        miss ==
            IF api.raised
            THEN [result |-> <<>>, tbl |-> tbl, hit |-> FALSE, cache_read |-> use_cache,
                  api_calls |-> 1, http |-> api.http, mock |-> FALSE, scored |-> <<>>]
            ELSE IF news # <<>> /\ ~write_ok
            THEN [result |-> <<>>, tbl |-> tbl, hit |-> FALSE, cache_read |-> use_cache,
                  api_calls |-> 1, http |-> api.http, mock |-> api.mock, scored |-> news]
            ELSE [result |-> news,
                  tbl |-> IF news # <<>> THEN cache_news(tbl, key, news) ELSE tbl,
                  hit |-> FALSE, cache_read |-> use_cache,
                  api_calls |-> 1, http |-> api.http, mock |-> api.mock, scored |-> news]
    IN {IF c # <<>>
        THEN [result |-> c, tbl |-> tbl, hit |-> TRUE, cache_read |-> TRUE,
              api_calls |-> 0, http |-> FALSE, mock |-> FALSE, scored |-> <<>>]
        ELSE miss : c \in cached}

fetch_stock_news(tbl, symbol, use_cache, outcome, batch, write_ok) ==
    FetchNews(tbl, symbol, SearchQuery(symbol), use_cache, outcome, batch, write_ok)

fetch_market_news(tbl, use_cache, outcome, batch, write_ok) ==
    FetchNews(tbl, None, MARKET_QUERY, use_cache, outcome, batch, write_ok)

\* ------------------------------------------------------------ arithmetic
\* Python floats are modelled in fixed point: prices in hundredths (cents),
\* sentiment scores in hundredths, variances, confidences and returns in
\* ten-thousandths,
\* AR coefficients and the square roots in thousandths.  Div rounds towards 0.
Div(a, b) == IF a >= 0 THEN a \div b ELSE -((-a) \div b)

Abs(a) == IF a >= 0 THEN a ELSE -a

Max(a, b) == IF a >= b THEN a ELSE b

Min(a, b) == IF a <= b THEN a ELSE b

RECURSIVE SumSeq(_)
SumSeq(s) == IF s = <<>> THEN 0 ELSE Head(s) + SumSeq(Tail(s))

\* The integer square root, by bisection on lo..hi.
RECURSIVE SqrtIn(_, _, _)
SqrtIn(n, lo, hi) ==
    IF lo >= hi THEN lo
    ELSE LET mid == (lo + hi + 1) \div 2
         IN IF mid * mid <= n THEN SqrtIn(n, mid, hi) ELSE SqrtIn(n, lo, mid - 1)

ISqrt(n) == SqrtIn(n, 0, Min(n, 46340))

\* get_overall_sentiment with the thresholds included in the labels
\* (avg_score >= 0.2, avg_score <= -0.2).
get_overall_sentiment_inclusive(news_items) ==
    IF news_items = <<>>
    THEN [score |-> 0, label |-> "Neutral", confidence |-> 0]
    ELSE LET scores == [i \in DOMAIN news_items |-> news_items[i].sentiment_score]
             n == Len(scores)
             total == SumSeq(scores)
             avg_score == Div(total, n)
             label == IF total >= 20 * n THEN "Positive"
                      ELSE IF total <= (-20) * n THEN "Negative"
                      ELSE "Neutral"
             variance == Div(SumSeq([i \in DOMAIN scores |->
                                       (scores[i] - avg_score) * (scores[i] - avg_score)]), n)
             confidence == Max(0, 10000 - variance)
         IN [score |-> avg_score, label |-> label, confidence |-> confidence,
             article_count |-> n]

\* get_overall_sentiment with the confidence taken from the standard
\* deviation of the scores (1 - sqrt(variance)).
get_overall_sentiment_deviation(news_items) ==
    IF news_items = <<>>
    THEN [score |-> 0, label |-> "Neutral", confidence |-> 0]
    ELSE LET scores == [i \in DOMAIN news_items |-> news_items[i].sentiment_score]
             n == Len(scores)
             total == SumSeq(scores)
             avg_score == Div(total, n)
             label == IF total > 20 * n THEN "Positive"
                      ELSE IF total < (-20) * n THEN "Negative"
                      ELSE "Neutral"
             variance == Div(SumSeq([i \in DOMAIN scores |->
                                       (scores[i] - avg_score) * (scores[i] - avg_score)]), n)
             confidence == Max(0, 10000 - 100 * ISqrt(variance))
         IN [score |-> avg_score, label |-> label, confidence |-> confidence,
             article_count |-> n]

\* get_overall_sentiment(news_items): the label is decided on the exact mean
\* (sum / len > 0.2); the score is in hundredths, the variance and the
\* confidence are in ten-thousandths.
get_overall_sentiment(news_items) ==
    IF news_items = <<>>
    THEN [score |-> 0, label |-> "Neutral", confidence |-> 0]
    ELSE LET scores == [i \in DOMAIN news_items |-> news_items[i].sentiment_score]
             n == Len(scores)
             total == SumSeq(scores)
             avg_score == Div(total, n)
             label == IF total > 20 * n THEN "Positive"
                      ELSE IF total < (-20) * n THEN "Negative"
                      ELSE "Neutral"
             \* variance in ten-thousandths
             variance == Div(SumSeq([i \in DOMAIN scores |->
                                       (scores[i] - avg_score) * (scores[i] - avg_score)]), n)
             confidence == Max(0, 10000 - variance)
         IN [score |-> avg_score, label |-> label, confidence |-> confidence,
             article_count |-> n]

\* ====================================================== PredictionService
FORECAST_DAYS == 10
ARIMA_P == 5
ARIMA_D == 1
\* SENTIMENT_WEIGHT = 0.3, in hundredths
SENTIMENT_WEIGHT == 30

\* _difference(data)
difference(data) == [i \in 1 .. (Len(data) - 1) |-> data[i + 1] - data[i]]

RECURSIVE DifferenceTimes(_, _)
DifferenceTimes(data, d) == IF d = 0 THEN data ELSE DifferenceTimes(difference(data), d - 1)

\* _integrate(diff_data, last_value, order): the running sum from last_value.
RECURSIVE integrate(_, _)
integrate(diff_data, last_value) ==
    IF diff_data = <<>> THEN <<>>
    ELSE <<last_value + Head(diff_data)>> \o integrate(Tail(diff_data), last_value + Head(diff_data))

\* _calculate_ar_coefficients(data, p), in thousandths.  The raw coefficient of
\* a lag is numerator / denominator with one denominator for all lags, so the
\* normalised one is 0.8 * numerator / (sum of |numerator|).
ArNumerator(data, lag) ==
    IF lag >= Len(data) THEN 0
    ELSE SumSeq([i \in 1 .. (Len(data) - lag) |-> data[i + lag] * data[i]])

\* The coefficients before they are normalised, as multiples of
\* 1 / denominator: 0 for a lag >= len(data) and when denominator is 0.
RawArCoefficients(data, p) ==
    LET denominator == SumSeq([i \in DOMAIN data |-> data[i] * data[i]])
    IN [lag \in 1 .. p |-> IF denominator > 0 THEN ArNumerator(data, lag) ELSE 0]

\* The normalisation without the damping factor: c / total.
calculate_ar_coefficients_undamped(data, p) ==
    LET raw == RawArCoefficients(data, p)
        total == SumSeq([lag \in 1 .. p |-> Abs(raw[lag])])
    IN IF total > 0 THEN [lag \in 1 .. p |-> Div(1000 * raw[lag], total)]
       ELSE [lag \in 1 .. p |-> 0]

calculate_ar_coefficients(data, p) ==
    LET raw == RawArCoefficients(data, p)
        total == SumSeq([lag \in 1 .. p |-> Abs(raw[lag])])
    IN IF total > 0 THEN [lag \in 1 .. p |-> Div(800 * raw[lag], total)]
       ELSE [lag \in 1 .. p |-> 0]

\* The forecast loop of _arima_forecast: each value from the last min(p, len)
\* values of working_data, appended to it.
RECURSIVE ForecastDiff(_, _, _)
ForecastDiff(coefficients, working_data, days) ==
    IF days = 0 THEN <<>>
    ELSE LET n == Len(working_data)
             next_value ==
                 Div(SumSeq([j \in 1 .. Min(Len(coefficients), n) |->
                               coefficients[j] * working_data[n + 1 - j]]), 1000)
         IN <<next_value>> \o ForecastDiff(coefficients, Append(working_data, next_value), days - 1)

\* (prices[i] - prices[i-1]) / prices[i-1] raises ZeroDivisionError when a
\* price that has a successor is 0 (the prices are Python floats).
ReturnsRaise(prices) == \E i \in 1 .. (Len(prices) - 1) : prices[i] = 0

\* The day-over-day simple returns, in ten-thousandths.
Returns(prices) ==
    [i \in 1 .. (Len(prices) - 1) |-> Div(10000 * (prices[i + 1] - prices[i]), prices[i])]

\* float('nan'): what np.std gives of an empty list, and whatever is
\* computed from it.
NaN == -1000000000

\* np.std(returns): the population standard deviation.
StdDev(xs) ==
    IF xs = <<>> THEN NaN
    ELSE LET n == Len(xs)
             mean == Div(SumSeq(xs), n)
         IN ISqrt(Div(SumSeq([i \in DOMAIN xs |-> (xs[i] - mean) * (xs[i] - mean)]), n))

\* _arima_forecast(prices)
arima_forecast(prices) ==
    LET diff_data == DifferenceTimes(prices, ARIMA_D)
        coefficients == calculate_ar_coefficients(diff_data, ARIMA_P)
        forecast_diff == ForecastDiff(coefficients, diff_data, FORECAST_DAYS)
        std == StdDev(Returns(prices))
    IN IF ReturnsRaise(prices)
       THEN [raised |-> TRUE, coefficients |-> coefficients, diff_data |-> diff_data,
             values |-> <<>>, volatility |-> 0]
       ELSE [raised |-> FALSE, coefficients |-> coefficients, diff_data |-> diff_data,
             values |-> integrate(forecast_diff, prices[Len(prices)]),
             volatility |-> IF std = NaN THEN NaN
                            ELSE Div(std * ISqrt(252 * 1000000), 1000)]

\* The forecasts, standard errors and square roots the runs below use, computed
\* once: of every input series, and of every horizon index.
ArimaOf == [p \in CoreSeries |-> arima_forecast(p)]
StdErrorOf == [p \in CoreSeries |-> IF ReturnsRaise(p) THEN NaN ELSE StdDev(Returns(p))]
SqrtOf == [i \in 1 .. FORECAST_DAYS |-> ISqrt(i * 1000000)]

\* _adjust_forecast_with_sentiment with the weight added to the score instead
\* of multiplied with it (adjustment = score + 0.3).
adjust_forecast_with_sentiment_added(forecast, sentiment_score) ==
    LET n == Len(forecast.values)
    IN [values |-> [i \in 1 .. n |->
                      forecast.values[i]
                      + Div(forecast.values[i] * (sentiment_score + SENTIMENT_WEIGHT) * i,
                            100 * 10 * n)],
        volatility |-> forecast.volatility,
        sentiment_adjustment |-> sentiment_score + SENTIMENT_WEIGHT]

\* _adjust_forecast_with_sentiment: value * (1 + adjustment * day_weight * 0.1)
\* with adjustment = score * 0.3 and day_weight = (i + 1) / len.
adjust_forecast_with_sentiment(forecast, sentiment_score) ==
    LET n == Len(forecast.values)
    IN [values |-> [i \in 1 .. n |->
                      forecast.values[i]
                      + Div(forecast.values[i] * sentiment_score * SENTIMENT_WEIGHT * i,
                            100 * 100 * 10 * n)],
        volatility |-> forecast.volatility,
        sentiment_adjustment |-> Div(sentiment_score * SENTIMENT_WEIGHT, 100)]

\* _calculate_confidence_intervals: margin = factor * std_error * value * sqrt(i + 1)
\* with factor = 1.96 * (1 + (1 - sentiment_confidence) * 0.5).
calculate_confidence_intervals(forecast, historical_prices, sentiment_confidence) ==
    LET std_error == StdErrorOf[historical_prices]
        confidence_factor == 1960 + Div(1960 * (10000 - sentiment_confidence), 20000)
        margin(i) == Div(Div(Div(confidence_factor * std_error, 1000)
                             * SqrtOf[i], 1000) * forecast[i], 10000)
    IN [i \in DOMAIN forecast |->
          IF std_error = NaN
          THEN [lower |-> 0, upper |-> NaN]
          ELSE [lower |-> Max(0, forecast[i] - margin(i)), upper |-> forecast[i] + margin(i)]]

\* The result dict predict_with_sentiment builds of the prices and the news
\* items it was given or has fetched.
PredictionResult(prices, news_items) ==
    LET forecast == ArimaOf[prices]
        sentiment == get_overall_sentiment(news_items)
        adjusted == adjust_forecast_with_sentiment(forecast, sentiment.score)
    IN [values |-> adjusted.values,
        confidenceIntervals |->
            calculate_confidence_intervals(adjusted.values, prices, sentiment.confidence),
        sentiment |-> sentiment,
        factors |-> [arima_contribution |-> 100 - SENTIMENT_WEIGHT,
                     sentiment_contribution |-> SENTIMENT_WEIGHT,
                     base_volatility |-> adjusted.volatility,
                     sentiment_adjustment |-> adjusted.sentiment_adjustment],
        news_count |-> Len(news_items),
        timestamp |-> datetime_now]

\* predict_with_sentiment(symbol, prices, use_cache): the runs it may take.
\* The news are fetched with fetch_stock_news(symbol), use_cache left True.
predict_with_sentiment(symbol, prices, use_cache, outcome, batch, write_ok) ==
    LET cached == IF use_cache
                  THEN get_cached_prediction(predictions, symbol, PREDICTION_MAX_AGE)
                  ELSE {<<>>}
        computed(news) ==
            LET result == PredictionResult(prices, news.result)
            IN [result |-> result, hit |-> FALSE, cache_read |-> use_cache,
                news_calls |-> 1, api_calls |-> news.api_calls,
                news_tbl |-> news.tbl,
                pred_tbl |-> cache_prediction(predictions, symbol, result,
                                              result.sentiment.score)]
    IN UNION {IF c # <<>>
              THEN {[result |-> c[1].forecast_data, hit |-> TRUE, cache_read |-> TRUE,
                     news_calls |-> 0, api_calls |-> 0,
                     news_tbl |-> news_cache, pred_tbl |-> predictions]}
              ELSE {computed(news) :
                      news \in fetch_stock_news(news_cache, symbol, TRUE, outcome, batch, write_ok)}
              : c \in cached}

\* ------------------------------------------------ the services, called
InitSvc ==
    /\ now = 0
    /\ tz \in TzOffsets
    /\ ticks = 0
    /\ stock_prices = EmptyTable
    /\ news_cache = EmptyTable
    /\ predictions = EmptyTable
    /\ last = NoCall
    /\ api_key \in BOOLEAN
    /\ polarity \in Polarities
    /\ ret = NoRet
    /\ OverviewIdle
    /\ CoreIdle

\* What a service call leaves in ret: the call, what the provider and the
\* store were set to do, and the run it took.
FetchStockNews(symbol, use_cache, outcome, batch, write_ok) ==
    /\ ret.seq < MaxCalls
    /\ \E run \in fetch_stock_news(news_cache, symbol, use_cache, outcome, batch, write_ok) :
          /\ news_cache' = run.tbl
          /\ ret' = [op |-> "fetch_stock_news", seq |-> ret.seq + 1, key |-> symbol,
                     use_cache |-> use_cache, outcome |-> outcome, write_ok |-> write_ok,
                     result |-> run.result, hit |-> run.hit, cache_read |-> run.cache_read,
                     api_calls |-> run.api_calls, http |-> run.http, mock |-> run.mock,
                     scored |-> run.scored]
    /\ UNCHANGED <<now, tz, ticks, stock_prices, predictions, last, api_key, polarity, ovVars, coreVars>>

FetchMarketNews(use_cache, outcome, batch, write_ok) ==
    /\ ret.seq < MaxCalls
    /\ \E run \in fetch_market_news(news_cache, use_cache, outcome, batch, write_ok) :
          /\ news_cache' = run.tbl
          /\ ret' = [op |-> "fetch_market_news", seq |-> ret.seq + 1, key |-> None,
                     use_cache |-> use_cache, outcome |-> outcome, write_ok |-> write_ok,
                     result |-> run.result, hit |-> run.hit, cache_read |-> run.cache_read,
                     api_calls |-> run.api_calls, http |-> run.http, mock |-> run.mock,
                     scored |-> run.scored]
    /\ UNCHANGED <<now, tz, ticks, stock_prices, predictions, last, api_key, polarity, ovVars, coreVars>>

Predict(symbol, prices, use_cache, outcome, batch, write_ok) ==
    /\ ret.seq < MaxCalls
    /\ \E run \in predict_with_sentiment(symbol, prices, use_cache, outcome, batch, write_ok) :
          /\ news_cache' = run.news_tbl
          /\ predictions' = run.pred_tbl
          /\ ret' = [op |-> "predict", seq |-> ret.seq + 1, key |-> symbol,
                     use_cache |-> use_cache, outcome |-> outcome, write_ok |-> write_ok,
                     result |-> run.result, hit |-> run.hit, cache_read |-> run.cache_read,
                     news_calls |-> run.news_calls, api_calls |-> run.api_calls]
    /\ UNCHANGED <<now, tz, ticks, stock_prices, last, api_key, polarity, ovVars, coreVars>>

\* Time passes between service calls.
SvcTick(d) == ret.seq < MaxCalls /\ Tick(d)

NextSvc ==
    \/ \E d \in SvcSteps : SvcTick(d)
    \/ \E s \in Symbols, u \in BOOLEAN, r \in Responses, w \in BOOLEAN :
          FetchStockNews(s, u, r.outcome, r.batch, w)
    \/ \E u \in BOOLEAN, r \in Responses, w \in BOOLEAN :
          FetchMarketNews(u, r.outcome, r.batch, w)
    \/ \E s \in Symbols, p \in PriceSeries, u \in BOOLEAN, r \in Responses, w \in BOOLEAN :
          Predict(s, p, u, r.outcome, r.batch, w)

SpecSvc == InitSvc /\ [][NextSvc]_vars

\* ------------------------------------------------ claims C5..C8 (SpecSvc)
\* A step that is a call of the service op.
IsCall(op) == ret'.seq = ret.seq + 1 /\ ret'.op = op

\* The rows of table tbl under key whose age (stamp) is below, or at most, ttl.
RowsYounger(tbl, stamp, key, ttl) ==
    {r \in Range(tbl.rows) : r.symbol = key /\ now - r[stamp] < ttl}

RowsWithin(tbl, stamp, key, ttl) ==
    {r \in Range(tbl.rows) : r.symbol = key /\ now - r[stamp] <= ttl}

\* Table after is table before with n rows appended.
Appended(before, after, n) ==
    /\ Len(after.rows) = Len(before.rows) + n
    /\ SubSeq(after.rows, 1, Len(before.rows)) = before.rows

\* C5: predict(symbol, prices, use_cache=True) is cache-aside.  A call that
\* finds no prediction of the symbol within the 1-hour TTL persists exactly
\* the result it returns, as one new entry under the symbol; a call made while
\* an entry of the symbol is younger than the TTL returns a persisted result,
\* makes no call of the news service, and writes neither table.
C5_PredictCacheAside ==
    [][(IsCall("predict") /\ ret'.use_cache) =>
          /\ RowsWithin(predictions, StampOfPrediction, ret'.key, PREDICTION_MAX_AGE) = {} =>
                /\ Appended(predictions, predictions', 1)
                /\ LET row == predictions'.rows[Len(predictions'.rows)]
                   IN row.symbol = ret'.key /\ json_loads(row.forecast_data) = ret'.result
          /\ RowsYounger(predictions, StampOfPrediction, ret'.key, PREDICTION_MAX_AGE) # {} =>
                /\ \E r \in RowsWithin(predictions, StampOfPrediction, ret'.key, PREDICTION_MAX_AGE) :
                      ret'.result = json_loads(r.forecast_data)
                /\ ret'.news_calls = 0
                /\ predictions' = predictions
                /\ news_cache' = news_cache]_vars

\* The provider failed the call recorded in r: no API key, a request error, a
\* response with a status other than "ok", a malformed response, or a failure
\* while the batch was written to the cache.
ProviderFailed(r) ==
    \/ ~api_key
    \/ r.outcome \in {"request_error", "status_not_ok", "malformed"}
    \/ (r.scored # <<>> /\ ~r.write_ok)

IsPlaceholder(items, query) ==
    /\ Len(items) = 2
    /\ items[1].title = MockTitle1(query)
    /\ items[2].title = MockTitle2(query)

\* C6: a fetch_stock_news call that went to the provider and met a provider
\* failure (the cache being writable) returns the two-item placeholder batch,
\* never an empty one.
C6_PlaceholderOnFailure ==
    (ret.op = "fetch_stock_news" /\ ~ret.hit /\ ret.write_ok /\ ProviderFailed(ret))
        => IsPlaceholder(ret.result, SearchQuery(ret.key))

PlaceholderScore(title) ==
    IF title \in {MockTitle1(q) : q \in Queries} THEN MOCK_SCORE_1 ELSE MOCK_SCORE_2

MockTitles == {MockTitle1(q) : q \in Queries} \cup {MockTitle2(q) : q \in Queries}

\* C7: when fetch_stock_news or fetch_market_news falls back to the
\* placeholder batch, the items it returns and the rows it caches carry the
\* fixed scores +0.5 and -0.2.
C7_PlaceholderScores ==
    (ret.op \in {"fetch_stock_news", "fetch_market_news"} /\ ret.mock) =>
        /\ \A i \in DOMAIN ret.result :
              ret.result[i].sentiment_score = PlaceholderScore(ret.result[i].title)
        /\ \A r \in Range(news_cache.rows) :
              r.title \in MockTitles => r.sentiment_score = PlaceholderScore(r.title)

\* C8: fetch_stock_news(symbol, use_cache=True) returns the cached batch of
\* the symbol without calling the provider while rows of the symbol are
\* younger than the news TTL; with no row of the symbol within the TTL (and
\* the cache writable) it calls the provider once, writes the scored batch
\* under the symbol and returns that batch.  With use_cache=False it does not read the cache and
\* calls the provider.
C8_NewsHitMiss ==
    [][IsCall("fetch_stock_news") =>
          /\ (ret'.use_cache
              /\ RowsYounger(news_cache, StampOfNews, ret'.key, NEWS_CACHE_TIMEOUT) # {}) =>
                /\ ret'.result # <<>>
                /\ Range(ret'.result)
                      \subseteq RowsWithin(news_cache, StampOfNews, ret'.key, NEWS_CACHE_TIMEOUT)
                /\ ret'.api_calls = 0
                /\ news_cache' = news_cache
          /\ (ret'.use_cache /\ ret'.write_ok
              /\ RowsWithin(news_cache, StampOfNews, ret'.key, NEWS_CACHE_TIMEOUT) = {}) =>
                /\ ret'.api_calls = 1
                /\ ret'.result = ret'.scored
                /\ Appended(news_cache, news_cache', Len(ret'.result))
                /\ \A i \in DOMAIN ret'.result :
                      LET row == news_cache'.rows[Len(news_cache.rows) + i]
                      IN /\ row.symbol = ret'.key
                         /\ row.title = ret'.result[i].title
                         /\ row.sentiment_score = ret'.result[i].sentiment_score
          /\ ~ret'.use_cache => (~ret'.cache_read /\ ret'.api_calls = 1)]_vars

\* ======================================================== market overview
\* MarketService.fetch_market_overview ("service") and the serverless
\* handler.get_market_overview ("handler") fetch a list of symbols on a pool
\* of worker threads and build the overview from the fetches that succeeded.

\* The pool's worker threads (max_workers, 10 in both) and the symbols fetched
\* (60 tracked stocks, NIFTY_50[:30]), scaled down.
MaxWorkers == 2
Universe == <<"RELIANCE.NS", "TCS.NS", "HDFCBANK.NS">>
Implementations == {"service", "handler"}

\* What yfinance answers for a symbol: marketCap, and the change in
\* hundredths of a percent.
\* Every mean of up to six of these changes is a whole number of hundredths,
\* which round(avg_change, 2) leaves as it is.
Quotes ==
    {[marketCap |-> 200, changePercent |-> 120], [marketCap |-> 100, changePercent |-> -60],
     [marketCap |-> 100, changePercent |-> 0]}

\* str(e) of the exception a failed fetch raises.
ErrorMessages == {"", "HTTP Error 404"}

FetchOutcomes ==
    {[kind |-> "ok", quote |-> q, message |-> None] : q \in Quotes}
    \cup {[kind |-> "raise", quote |-> [marketCap |-> 0, changePercent |-> 0], message |-> m]
          : m \in ErrorMessages}

\* The symbols of the overview computed on its own: the first five of
\* NIFTY_50 and one that no category lists (more than five, for the top five).
TrackedStocks ==
    <<"RELIANCE.NS", "TCS.NS", "HDFCBANK.NS", "INFY.NS", "ICICIBANK.NS", "LT.NS">>

\* config.MARKET_CATEGORIES, the symbols of TrackedStocks, and one category
\* with no symbol of them.
MARKET_CATEGORIES ==
    [banking |-> {"HDFCBANK.NS", "ICICIBANK.NS"}, it |-> {"TCS.NS", "INFY.NS"},
     energy |-> {"RELIANCE.NS"}, auto |-> {"MARUTI.NS"}]

\* fetch_stock_quick(symbol): the record of the quote, or the error marker
\* (error None: the record has no 'error' key; an error marker has no
\* marketCap, which every reader takes as 0).  <<x>> is the value x.
fetch_stock_quick(symbol, outcome) ==
    IF outcome.kind = "ok"
    THEN <<[symbol |-> symbol, marketCap |-> outcome.quote.marketCap,
            changePercent |-> outcome.quote.changePercent, error |-> None]>>
    ELSE <<[symbol |-> symbol, marketCap |-> 0, changePercent |-> 0,
            error |-> outcome.message]>>

\* fetch_stock(symbol) of the handler: the record, or None (<<>>).
fetch_stock(symbol, outcome) ==
    IF outcome.kind = "ok"
    THEN <<[symbol |-> symbol, marketCap |-> outcome.quote.marketCap,
            changePercent |-> outcome.quote.changePercent, error |-> None]>>
    ELSE <<>>

\* not stock_data.get('error'): no key, None and '' are all falsy.
Falsy(error) == error = None \/ error = ""

\* list.sort / sorted by an integer key: stable, ascending in keys[i].
StableSort(items, keys) ==
    LET n == Len(items)
        pos(i) == 1 + Cardinality({j \in 1 .. n : keys[j] < keys[i]})
                    + Cardinality({j \in 1 .. (i - 1) : keys[j] = keys[i]})
    IN [k \in 1 .. n |-> items[CHOOSE i \in 1 .. n : pos(i) = k]]

\* sort(key=lambda x: x.get('marketCap', 0), reverse=True)
SortByMarketCapDesc(stocks) ==
    StableSort(stocks, [i \in DOMAIN stocks |-> -stocks[i].marketCap])

\* The list left in the order it has (the order of market capitalisation).
SortByChangeMissing(stocks) == stocks

SortByChangeDesc(stocks) ==
    StableSort(stocks, [i \in DOMAIN stocks |-> -stocks[i].changePercent])

SortByChangeAsc(stocks) ==
    StableSort(stocks, [i \in DOMAIN stocks |-> stocks[i].changePercent])

FirstFive(s) == SubSeq(s, 1, Min(5, Len(s)))

AvgChange(stocks) ==
    IF Len(stocks) > 0
    THEN Div(SumSeq([i \in DOMAIN stocks |-> stocks[i].changePercent]), Len(stocks))
    ELSE 0

\* _categorize_stocks(stocks): the categories with at least one stock.
categorize_stocks(stocks) ==
    LET of(c) == SelectSeq(stocks, LAMBDA x : x.symbol \in MARKET_CATEGORIES[c])
        present == {c \in DOMAIN MARKET_CATEGORIES : of(c) # <<>>}
    IN [c \in present |-> [stocks |-> of(c), avgChange |-> AvgChange(of(c)),
                           count |-> Len(of(c))]]

\* What fetch_market_overview returns from the records it kept.
fetch_market_overview(kept) ==
    LET stocks == SortByMarketCapDesc(kept)
        total_stocks == Len(stocks)
        gainers == SelectSeq(stocks, LAMBDA x : x.changePercent > 0)
        losers == SelectSeq(stocks, LAMBDA x : x.changePercent < 0)
    IN [stocks |-> stocks,
        statistics |-> [total |-> total_stocks, gainers |-> Len(gainers),
                        losers |-> Len(losers),
                        unchanged |-> total_stocks - Len(gainers) - Len(losers),
                        avgChange |-> AvgChange(stocks)],
        topGainers |-> FirstFive(SortByChangeDesc(stocks)),
        topLosers |-> FirstFive(SortByChangeAsc(stocks)),
        lastUpdate |-> datetime_now,
        categories |-> categorize_stocks(stocks)]

\* What get_market_overview returns from the list of results.
get_market_overview(results) ==
    LET found == SelectSeq(results, LAMBDA x : x # <<>>)
        stocks == SortByMarketCapDesc([i \in DOMAIN found |-> found[i][1]])
        total_stocks == Len(stocks)
        gainers == SelectSeq(stocks, LAMBDA x : x.changePercent > 0)
        losers == SelectSeq(stocks, LAMBDA x : x.changePercent < 0)
    IN [stocks |-> stocks,
        statistics |-> [total |-> total_stocks, gainers |-> Len(gainers),
                        losers |-> Len(losers), avgChange |-> AvgChange(stocks)],
        topGainers |-> FirstFive(SortByChangeDesc(stocks)),
        topLosers |-> FirstFive(SortByChangeAsc(stocks)),
        lastUpdate |-> datetime_now]

InitOverview ==
    /\ now = 0
    /\ tz = 0
    /\ ticks = 0
    /\ stock_prices = EmptyTable
    /\ news_cache = EmptyTable
    /\ predictions = EmptyTable
    /\ last = NoCall
    /\ api_key = FALSE
    /\ polarity = [mock1 |-> MOCK_SCORE_1, mock2 |-> MOCK_SCORE_2]
    /\ ret = NoRet
    /\ OverviewIdle
    /\ CoreIdle

unchangedByOverview == <<now, tz, ticks, dbVars, last, svcVars, coreVars>>

Busy == {i \in DOMAIN futures : futures[i].st \in {"running", "hung"}}

\* The call starts: every symbol is submitted to the pool, in list order.
StartOverview(impl) ==
    /\ overview.pc = "idle"
    /\ overview' = [impl |-> impl, pc |-> "running"]
    /\ futures' = [i \in DOMAIN Universe |-> [st |-> "queued", ok |-> FALSE, result |-> <<>>]]
    /\ UNCHANGED <<gathered, response, unchangedByOverview>>

\* Dispatch with a thread started for every work item, whatever the number
\* of threads already busy.
DispatchUnbounded(i) ==
    /\ overview.pc = "running"
    /\ futures[i].st = "queued"
    /\ \A j \in 1 .. (i - 1) : futures[j].st # "queued"
    /\ futures' = [futures EXCEPT ![i].st = "running"]
    /\ UNCHANGED <<overview, gathered, response, unchangedByOverview>>

\* A free worker thread takes the next work item of the queue.
Dispatch(i) ==
    /\ overview.pc = "running"
    /\ futures[i].st = "queued"
    /\ \A j \in 1 .. (i - 1) : futures[j].st # "queued"
    /\ Cardinality(Busy) < MaxWorkers
    /\ futures' = [futures EXCEPT ![i].st = "running"]
    /\ UNCHANGED <<overview, gathered, response, unchangedByOverview>>

\* The fetch of symbol i returns: the future is done, with what the fetch
\* function of the implementation made of yfinance's answer.
Finish(i, outcome) ==
    /\ overview.pc = "running"
    /\ futures[i].st = "running"
    /\ futures' = [futures EXCEPT ![i] =
                      [st |-> "done", ok |-> outcome.kind = "ok",
                       result |-> IF overview.impl = "service"
                                  THEN fetch_stock_quick(Universe[i], outcome)
                                  ELSE fetch_stock(Universe[i], outcome)]]
    /\ UNCHANGED <<overview, gathered, response, unchangedByOverview>>

\* The upstream call of symbol i never returns: no fetch has a deadline of
\* its own, and its worker thread stays with it.
Hang(i) ==
    /\ overview.pc = "running"
    /\ futures[i].st = "running"
    /\ futures' = [futures EXCEPT ![i].st = "hung"]
    /\ UNCHANGED <<overview, gathered, response, unchangedByOverview>>

\* The main thread takes the result of a done future: as_completed hands out
\* the futures as they finish (service, which keeps a record unless its error
\* is truthy); executor.map hands out the results in submit order (handler,
\* whose list keeps every result).  Neither wait has a timeout.
Collect(i) ==
    /\ overview.pc = "running"
    /\ futures[i].st = "done"
    /\ overview.impl = "handler" => \A j \in 1 .. (i - 1) : futures[j].st = "collected"
    /\ futures' = [futures EXCEPT ![i].st = "collected"]
    /\ gathered' =
          IF overview.impl = "service"
          THEN IF Falsy(futures[i].result[1].error)
               THEN Append(gathered, futures[i].result[1])
               ELSE gathered
          ELSE Append(gathered, futures[i].result)
    /\ UNCHANGED <<overview, response, unchangedByOverview>>

\* Every future has been taken: the with block ends (shutdown(wait=True) has
\* nothing to wait for) and the overview is built and returned.
Return ==
    /\ overview.pc = "running"
    /\ \A i \in DOMAIN futures : futures[i].st = "collected"
    /\ overview' = [overview EXCEPT !.pc = "done"]
    /\ response' = IF overview.impl = "service"
                   THEN fetch_market_overview(gathered)
                   ELSE get_market_overview(gathered)
    /\ UNCHANGED <<futures, gathered, unchangedByOverview>>

NextOverview ==
    \/ \E impl \in Implementations : StartOverview(impl)
    \/ \E i \in DOMAIN Universe : Dispatch(i)
    \/ \E i \in DOMAIN Universe, o \in FetchOutcomes : Finish(i, o)
    \/ \E i \in DOMAIN Universe : Hang(i)
    \/ \E i \in DOMAIN Universe : Collect(i)
    \/ Return

SpecOverview == InitOverview /\ [][NextOverview]_vars

\* ------------------------------------------- claims C9, C10 (SpecOverview)
Succeeded == {Universe[i] : i \in {j \in DOMAIN futures : futures[j].ok}}

\* C9: a market overview call returns only after every submitted fetch has
\* finished, and what it returns holds exactly one record per symbol whose
\* fetch succeeded, none of a symbol whose fetch failed (whatever the
\* message of the error), and statistics.total is the number of successes.
C9_PartialFailure ==
    overview.pc = "done" =>
        /\ \A i \in DOMAIN futures : futures[i].st = "collected"
        /\ {response.stocks[k].symbol : k \in DOMAIN response.stocks} = Succeeded
        /\ Len(response.stocks) = Cardinality(Succeeded)
        /\ response.statistics.total = Cardinality(Succeeded)

\* C10: a market overview call never gets stuck on one fetch that hangs:
\* while the call has not returned, with the fetch of one symbol hung,
\* something can still happen (another fetch can run or finish, a result be
\* taken, the call return).
C10_ReturnsDespiteHang ==
    (overview.pc = "running"
     /\ Cardinality({i \in DOMAIN futures : futures[i].st = "hung"}) = 1)
        => ENABLED NextOverview

\* ------------------------------------------------ claim C11 (SpecOverview)
\* C11: in every state of a market overview call at most max_workers fetches
\* are in flight (10 in the code, MaxWorkers here, with more symbols than
\* workers); a fetch starts only from the queue and nothing returns to the
\* queue, so each symbol is dispatched at most once; when the call returns
\* every symbol has been dispatched; and no symbol is submitted twice.
C11_BoundedDispatch ==
    [][/\ Cardinality(Busy') <= MaxWorkers
       /\ \A i \in DOMAIN futures :
             /\ futures[i].st # "queued" => futures'[i].st # "queued"
             /\ (futures'[i].st = "running" /\ futures[i].st # "running")
                   => futures[i].st = "queued"
       /\ overview'.pc = "done" =>
             \A i \in DOMAIN Universe : futures'[i].st = "collected"
       /\ \A i, j \in DOMAIN Universe : i # j => Universe[i] # Universe[j]]_vars

\* The pool is full and a symbol waits in the queue.
C11_Witness ==
    /\ Cardinality(Busy) = MaxWorkers
    /\ \E i \in DOMAIN futures : futures[i].st = "queued"

\* ================================== the cache, statement by statement
\* cache_news is one connection that executes one INSERT per article and then
\* commits.  Every INSERT takes its own CURRENT_TIMESTAMP; the rows stay in the
\* connection's transaction until the commit, and other connections (the
\* reads, the purge) see committed rows only.
InitTxn ==
    /\ now = 0
    /\ tz = 0
    /\ ticks = 0
    /\ stock_prices = EmptyTable
    /\ news_cache = EmptyTable
    /\ predictions = EmptyTable
    /\ last = NoCall
    /\ api_key = FALSE
    /\ polarity = [mock1 |-> MOCK_SCORE_1, mock2 |-> MOCK_SCORE_2]
    /\ ret = NoRet
    /\ OverviewIdle
    /\ CoreIdle

unchangedByWriter ==
    <<now, tz, ticks, stock_prices, predictions, last, svcVars, ovVars, calc, threads,
      socketio>>

\* conn = self.get_connection()
BeginCacheNews(symbol, articles) ==
    /\ writer.pc = "idle"
    /\ Inserted + Len(articles) <= MaxRows
    /\ writer' = [pc |-> "inserting", key |-> symbol, articles |-> articles, pending |-> <<>>]
    /\ UNCHANGED <<news_cache, batches, unchangedByWriter>>

\* cursor.execute('INSERT INTO news_cache ...') for the next article.
InsertArticle ==
    /\ writer.pc = "inserting"
    /\ writer.articles # <<>>
    /\ LET article == Head(writer.articles)
           row == [id |-> news_cache.next + Len(writer.pending), symbol |-> writer.key,
                   title |-> article.title, published_at |-> article.publishedAt,
                   sentiment_score |-> article.sentiment_score, cached_at |-> now]
       IN writer' = [writer EXCEPT !.articles = Tail(writer.articles),
                                   !.pending = Append(writer.pending, row)]
    /\ UNCHANGED <<news_cache, batches, unchangedByWriter>>

\* conn.commit(): the rows of the call become visible together.
CommitCacheNews ==
    /\ writer.pc = "inserting"
    /\ writer.articles = <<>>
    /\ news_cache' = [rows |-> news_cache.rows \o writer.pending,
                      next |-> news_cache.next + Len(writer.pending)]
    /\ batches' = batches \cup {{writer.pending[i].id : i \in DOMAIN writer.pending}}
    /\ writer' = NoWriter
    /\ UNCHANGED unchangedByWriter

\* cleanup_old_data needs the write lock: it waits while cache_news holds it.
TxnCleanup(days) == writer.pc = "idle" /\ Cleanup(days)

\* The clock may advance between any two statements, and a read may come
\* between any two.
NextTxn ==
    \/ \E d \in Steps : Tick(d)
    \/ \E k \in NewsKeys, b \in Batches : BeginCacheNews(k, b)
    \/ InsertArticle
    \/ CommitCacheNews
    \/ \E k \in NewsKeys, a \in MaxAges : GetNews(k, a)
    \/ \E d \in CleanupDays : TxnCleanup(d)

SpecTxn == InitTxn /\ [][NextTxn]_vars

\* ---------------------------------------------------- claim C12 (SpecTxn)
\* C12: whatever the interleaving of cache_news, the reads and the purge, a
\* get_cached_news returns of each batch written by one cache_news call
\* either every row or none.
C12_NoTornRead ==
    (last.op = "get" /\ last.kind = "news") =>
        LET got == {last.value[i].id : i \in DOMAIN last.value}
        IN \A b \in batches : b \cap got = {} \/ b \subseteq got

\* ------------------------------------------------------- claim C13 (Spec)
\* The rows of tbl whose age is at most older_than, in their order.
NotOlderThan(tbl, stamp, older_than) ==
    [rows |-> SelectSeq(tbl.rows, LAMBDA r : now - r[stamp] <= older_than), next |-> tbl.next]

\* C13: a purge deletes from each of the three tables every row whose age
\* exceeds older_than and leaves every other row as it is.
C13_PurgeByAge ==
    [][last'.op = "purge" =>
          /\ stock_prices' = NotOlderThan(stock_prices, StampOfPrice, last'.max_age)
          /\ news_cache' = NotOlderThan(news_cache, StampOfNews, last'.max_age)
          /\ predictions' = NotOlderThan(predictions, StampOfPrediction, last'.max_age)]_vars

\* ============================================== the computations, on their own
\* The sentiment scores of the items of a batch, in hundredths: the threshold
\* 0.2, its neighbours and the extremes.
ScoreValues == {-100, -21, -20, -19, 0, 19, 20, 21, 100}
MaxItems == 2

\* The batches summarised: up to MaxItems items whose mean is a whole number
\* of hundredths, so that the mean is computed exactly (of these scores the
\* floats of sum(scores) / len(scores) give that mean too).
ItemBatches ==
    {b \in UNION {[1 .. n -> [sentiment_score : ScoreValues]] : n \in 0 .. MaxItems} :
        b = <<>> \/ SumSeq([i \in DOMAIN b |-> b[i].sentiment_score]) % Len(b) = 0}

\* The batches a forecast is computed with: none, one item of each score, and
\* the two placeholder items.
ForecastBatches ==
    {b \in ItemBatches : Len(b) <= 1} \cup
    {<<[sentiment_score |-> MOCK_SCORE_1], [sentiment_score |-> MOCK_SCORE_2]>>}

\* fetch_stock_quick: change_percent = (change / previous_close * 100) if
\* previous_close else 0, in hundredths of a percent.
change_percent(current_price, previous_close) ==
    IF previous_close # 0
    THEN Div(10000 * (current_price - previous_close), previous_close)
    ELSE 0

SnapshotPrices == {0, 10000, 10100}

\* The lists of changePercent the average is taken of.
ChangeLists == {<<>>, <<120>>, <<120, -60>>}

InitCore ==
    /\ now = 0
    /\ tz = 0
    /\ ticks = 0
    /\ stock_prices = EmptyTable
    /\ news_cache = EmptyTable
    /\ predictions = EmptyTable
    /\ last = NoCall
    /\ api_key = FALSE
    /\ polarity \in Polarities
    /\ ret = NoRet
    /\ OverviewIdle
    /\ writer = NoWriter
    /\ batches = {}
    /\ calc = NoCalc
    /\ threads = <<>>
    /\ socketio = NoSocket

unchangedByCore ==
    <<now, tz, ticks, dbVars, last, svcVars, ovVars, writer, batches, threads, socketio>>

\* get_overall_sentiment(news_items), called.
Summarize(news_items) ==
    /\ calc' = [op |-> "summarize", news_items |-> news_items,
                out |-> get_overall_sentiment(news_items)]
    /\ UNCHANGED unchangedByCore

\* predict_with_sentiment from _arima_forecast on, with the items the news
\* service returned: _arima_forecast raises before anything else is computed.
Forecast(prices, news_items) ==
    LET forecast == ArimaOf[prices]
        sentiment == get_overall_sentiment(news_items)
        adjusted == adjust_forecast_with_sentiment(forecast, sentiment.score)
    IN /\ calc' = [op |-> "forecast", prices |-> prices, news_items |-> news_items,
                   raised |-> forecast.raised,
                   coefficients |-> forecast.coefficients,
                   raw_coefficients |-> RawArCoefficients(forecast.diff_data, ARIMA_P),
                   diff_data |-> forecast.diff_data,
                   raw |-> forecast.values,
                   score |-> sentiment.score,
                   values |-> adjusted.values,
                   intervals |-> IF forecast.raised THEN <<>>
                                 ELSE calculate_confidence_intervals(
                                          adjusted.values, prices, sentiment.confidence)]
       /\ UNCHANGED unchangedByCore

\* The changePercent of a snapshot, from the two prices of the provider.
Snapshot(current_price, previous_close) ==
    /\ calc' = [op |-> "snapshot", current_price |-> current_price,
                previous_close |-> previous_close,
                changePercent |-> change_percent(current_price, previous_close)]
    /\ UNCHANGED unchangedByCore

\* The avgChange of the overview, of the records that were fetched.
Average(changes) ==
    /\ calc' = [op |-> "average", changes |-> changes,
                avgChange |-> AvgChange([i \in DOMAIN changes |-> [changePercent |-> changes[i]]])]
    /\ UNCHANGED unchangedByCore

NextCore ==
    \/ \E b \in ItemBatches : Summarize(b)
    \/ \E p \in CoreSeries, b \in ForecastBatches : Forecast(p, b)
    \/ \E c \in SnapshotPrices, pc \in SnapshotPrices : Snapshot(c, pc)
    \/ \E l \in ChangeLists : Average(l)

SpecCore == InitCore /\ [][NextCore]_vars

\* ------------------------------------------------------------ claims C14-C20
IsCalc(op) == calc.op = op

\* A forecast that was computed to its end, of a series with at least one
\* return (the standard error is a number).
Forecasted == IsCalc("forecast") /\ ~calc.raised /\ Len(calc.prices) >= 2

\* The margin of the interval of horizon index i: upper - value.
Margin(i) == calc.intervals[i].upper - calc.values[i]

\* C14: the margins of the confidence intervals never decrease with the
\* horizon index, whatever the series, also when the adjusted values fall
\* over the horizon or are negative.
C14_MarginsWiden ==
    Forecasted => \A i \in 1 .. (FORECAST_DAYS - 1) : Margin(i) <= Margin(i + 1)

Flat(prices) == \A i \in DOMAIN prices : prices[i] = prices[1]

\* C15: of a flat series (every price c) the forecast is c at every step and
\* every interval has lower = upper = c, whatever the news batch.
C15_FlatSeries ==
    (IsCalc("forecast") /\ Len(calc.prices) >= 2 /\ Flat(calc.prices) /\ calc.prices[1] > 0) =>
        /\ ~calc.raised
        /\ \A i \in 1 .. FORECAST_DAYS :
              /\ calc.values[i] = calc.prices[1]
              /\ calc.intervals[i].lower = calc.prices[1]
              /\ calc.intervals[i].upper = calc.prices[1]

\* C16: with a sentiment score of 0.0 the adjusted values are the values of
\* the autoregressive forecast, unchanged.
C16_ZeroScoreIdentity ==
    (IsCalc("forecast") /\ ~calc.raised /\ calc.score = 0) => calc.values = calc.raw

\* A forecast that moves over the horizon, of a batch whose mean score is 0.
C16_Witness ==
    /\ IsCalc("forecast") /\ ~calc.raised /\ calc.score = 0
    /\ calc.news_items # <<>>
    /\ calc.raw[1] # calc.raw[FORECAST_DAYS]
    /\ calc.values = calc.raw

\* C17: a non-empty series shorter than p + 1 does not raise, has coefficient
\* 0 at every lag from the length of the differenced series on, and gives
\* FORECAST_DAYS values with as many intervals.
C17_ShortSeries ==
    (IsCalc("forecast") /\ Len(calc.prices) <= ARIMA_P) =>
        /\ ~calc.raised
        /\ \A lag \in 1 .. ARIMA_P :
              lag >= Len(calc.prices) - ARIMA_D => calc.coefficients[lag] = 0
        /\ Len(calc.values) = FORECAST_DAYS
        /\ Len(calc.intervals) = FORECAST_DAYS

\* C18: no division has a zero denominator: a historical price of 0 does not
\* make the returns raise, a zero sum of squares gives coefficients 0, a
\* previous close of 0 gives changePercent 0, no records give avgChange 0.
C18_ZeroDenominators ==
    /\ IsCalc("forecast") =>
          /\ ~calc.raised
          /\ Flat(calc.prices) => \A lag \in 1 .. ARIMA_P : calc.coefficients[lag] = 0
    /\ (IsCalc("snapshot") /\ calc.previous_close = 0) => calc.changePercent = 0
    /\ (IsCalc("average") /\ calc.changes = <<>>) => calc.avgChange = 0

\* C19: the summary of no items is score 0.0, label Neutral, confidence 0.0
\* and article_count 0, all four fields.
C19_EmptySummary ==
    (IsCalc("summarize") /\ calc.news_items = <<>>) =>
        calc.out = [score |-> 0, label |-> "Neutral", confidence |-> 0, article_count |-> 0]

TotalScore == SumSeq([i \in DOMAIN calc.news_items |-> calc.news_items[i].sentiment_score])

\* C20: of a non-empty batch the score is the mean of the items' scores, the
\* label is Positive exactly when the score is above 0.2, Negative exactly
\* when it is below -0.2 and Neutral otherwise (also at 0.2 and -0.2), and
\* article_count is the number of items.
C20_MeanAndLabel ==
    (IsCalc("summarize") /\ calc.news_items # <<>>) =>
        /\ calc.out.score * Len(calc.news_items) = TotalScore
        /\ calc.out.label = "Positive" <=> calc.out.score > 20
        /\ calc.out.label = "Negative" <=> calc.out.score < -20
        /\ calc.out.label \in {"Positive", "Negative", "Neutral"}
        /\ calc.out.article_count = Len(calc.news_items)

\* Items above and below 0.2 whose mean is exactly 0.2, summarised: Neutral.
C20_Witness ==
    /\ IsCalc("summarize")
    /\ Len(calc.news_items) = 2
    /\ calc.out.score = 20
    /\ calc.out.label = "Neutral"
    /\ calc.out.article_count = 2
    /\ \E i \in DOMAIN calc.news_items : calc.news_items[i].sentiment_score > 20

\* ------------------------------------------------------------ claims C21-C30
\* The variance of the scores of the batch, in ten-thousandths:
\* (n * sum of squares - (sum)^2) / n^2.
VarianceOfItems ==
    LET n == Len(calc.news_items)
        squares == SumSeq([i \in DOMAIN calc.news_items |->
                             calc.news_items[i].sentiment_score
                             * calc.news_items[i].sentiment_score])
    IN Div(n * squares - TotalScore * TotalScore, n * n)

\* C21: of a batch with scores in [-1, 1] the confidence is
\* max(0, 1 - variance) and lies in [0, 1], the score lies in [-1, 1], and
\* when all items have the same score the confidence is exactly 1.0.
C21_ConfidenceFromVariance ==
    IsCalc("summarize") =>
        /\ calc.out.confidence \in 0 .. 10000
        /\ calc.out.score \in (-100) .. 100
        /\ calc.news_items # <<>> =>
              /\ calc.out.confidence = Max(0, 10000 - VarianceOfItems)
              /\ (\A i \in DOMAIN calc.news_items :
                     calc.news_items[i].sentiment_score = calc.news_items[1].sentiment_score)
                 => calc.out.confidence = 10000

\* Two items of different scores, summarised: a confidence below 1.0.
C21_Witness ==
    /\ IsCalc("summarize")
    /\ Len(calc.news_items) = 2
    /\ calc.news_items[1].sentiment_score # calc.news_items[2].sentiment_score
    /\ calc.out.confidence > 0
    /\ calc.out.confidence < 10000
    /\ calc.out.confidence = 10000 - VarianceOfItems

\* ================================================ the aggregation, on its own
\* Strings are sequences of letters; str.lower() letter by letter.
Letters == {"t", "T", "c", "C"}
LowerChar(c) == IF c = "T" THEN "t" ELSE IF c = "C" THEN "c" ELSE c
lower(text) == [i \in DOMAIN text |-> LowerChar(text[i])]

\* sub in text, of Python strings.
Contains(sub, text) ==
    \E k \in 0 .. (Len(text) - Len(sub)) : SubSeq(text, k + 1, k + Len(sub)) = sub

\* search_stocks with the fields of the records compared as they are
\* (query.lower() in s['symbol'] or query.lower() in s['name']).
search_stocks_as_written(query, stocks) ==
    SelectSeq(stocks, LAMBDA x : Contains(lower(query), x.symbol) \/ Contains(lower(query), x.name))

\* search_stocks(query, stocks); a record without name has name ''.
search_stocks(query, stocks) ==
    SelectSeq(stocks, LAMBDA x : \/ Contains(lower(query), lower(x.symbol))
                                 \/ Contains(lower(query), lower(x.name)))

MaxQuery == 2
MaxListed == 3

SearchQueries == UNION {[1 .. n -> Letters] : n \in 0 .. MaxQuery}

\* The records searched: symbol and name (<<>>: no name).
Listed ==
    {[symbol |-> <<"T", "C">>, name |-> <<"T", "c">>],
     [symbol |-> <<"C", "T">>, name |-> <<"c", "c">>],
     [symbol |-> <<"C", "C">>, name |-> <<>>],
     [symbol |-> <<"T", "T">>, name |-> <<"c", "t", "c">>]}

StockLists == UNION {[1 .. n -> Listed] : n \in 0 .. MaxListed}

\* What the fetches of TrackedStocks answered, in list order.
OutcomeLists == [DOMAIN TrackedStocks -> FetchOutcomes]

\* The orders in which as_completed hands out the futures: list order, or
\* the reverse of it.
CompletionOrders == {"submitted", "reversed"}

Reverse(s) == [i \in DOMAIN s |-> s[Len(s) + 1 - i]]

InitAgg ==
    /\ now = 0
    /\ tz = 0
    /\ ticks = 0
    /\ stock_prices = EmptyTable
    /\ news_cache = EmptyTable
    /\ predictions = EmptyTable
    /\ last = NoCall
    /\ api_key = FALSE
    /\ polarity = [mock1 |-> MOCK_SCORE_1, mock2 |-> MOCK_SCORE_2]
    /\ ret = NoRet
    /\ OverviewIdle
    /\ CoreIdle

\* One call of fetch_market_overview of the service, or of
\* get_market_overview of the handler, from the fetches' answers: the records
\* kept, and the overview built of them.
Aggregate(impl, outcomes, order) ==
    LET records == [i \in DOMAIN TrackedStocks |-> fetch_stock_quick(TrackedStocks[i], outcomes[i])[1]]
        completed == IF order = "reversed" THEN Reverse(records) ELSE records
        results == [i \in DOMAIN TrackedStocks |-> fetch_stock(TrackedStocks[i], outcomes[i])]
    IN /\ calc = NoCalc
       /\ impl = "handler" => order = "submitted"
       /\ calc' = [op |-> "overview", impl |-> impl, outcomes |-> outcomes, order |-> order,
                   out |-> IF impl = "service"
                           THEN fetch_market_overview(
                                    SelectSeq(completed, LAMBDA x : Falsy(x.error)))
                           ELSE get_market_overview(results)]
       /\ UNCHANGED unchangedByCore

\* One call of search_stocks, and a second one on what it returned.
Search(query, stocks) ==
    /\ calc = NoCalc
    /\ calc' = [op |-> "search", query |-> query, stocks |-> stocks,
                out |-> search_stocks(query, stocks),
                again |-> search_stocks(query, search_stocks(query, stocks))]
    /\ UNCHANGED unchangedByCore

\* Each run is one call, made of the state in which nothing was computed.
NextAgg ==
    \/ /\ calc = NoCalc
       /\ \E impl \in Implementations, o \in OutcomeLists, order \in CompletionOrders :
             Aggregate(impl, o, order)
    \/ /\ calc = NoCalc
       /\ \E q \in SearchQueries, l \in StockLists : Search(q, l)

SpecAgg == InitAgg /\ [][NextAgg]_vars

\* The symbols whose fetch succeeded, and the record of each.
Successful == {i \in DOMAIN TrackedStocks : calc.outcomes[i].kind = "ok"}
RecordOf(i) == fetch_stock(TrackedStocks[i], calc.outcomes[i])[1]

\* C22: the records of the overview are in non-increasing order of market
\* capitalisation, and they are a permutation of the successful records.
C22_SortedByMarketCap ==
    IsCalc("overview") =>
        LET stocks == calc.out.stocks
        IN /\ \A k \in 1 .. (Len(stocks) - 1) : stocks[k].marketCap >= stocks[k + 1].marketCap
           /\ Len(stocks) = Cardinality(Successful)
           /\ \A i \in Successful : \E k \in DOMAIN stocks : stocks[k] = RecordOf(i)

\* The number of records whose change has the sign given (1, -1 or 0).
CountOf(stocks, sign) ==
    Cardinality({k \in DOMAIN stocks :
                   \/ sign > 0 /\ stocks[k].changePercent > 0
                   \/ sign < 0 /\ stocks[k].changePercent < 0
                   \/ sign = 0 /\ stocks[k].changePercent = 0})
SumOfChanges(stocks) == SumSeq([k \in DOMAIN stocks |-> stocks[k].changePercent])

\* C23: the statistics partition the records of the overview: gainers,
\* losers and unchanged count the records with a change above, below and
\* equal to 0, they add up to total, the number of records, and avgChange is
\* the mean change (0 when there is no record).
C23_StatisticsPartition ==
    IsCalc("overview") =>
        LET stocks == calc.out.stocks
            st == calc.out.statistics
        IN /\ st.total = Len(stocks)
           /\ st.gainers = CountOf(stocks, 1)
           /\ st.losers = CountOf(stocks, -1)
           /\ st.avgChange * st.total = SumOfChanges(stocks)
           /\ st.total = 0 => st.avgChange = 0
           /\ "unchanged" \in DOMAIN st
           /\ st.unchanged = CountOf(stocks, 0)
           /\ st.gainers + st.losers + st.unchanged = st.total

SymbolsOf(stocks) == {stocks[k].symbol : k \in DOMAIN stocks}

\* top is a list of min(5, total) records of stocks, no two of one symbol,
\* with the changes times sign (1: highest first, -1: lowest first) in
\* non-increasing order, and no record outside it strictly above one inside.
IsTopFive(top, stocks, sign) ==
    /\ Len(top) = Min(5, Len(stocks))
    /\ \A k \in DOMAIN top : \E j \in DOMAIN stocks : stocks[j] = top[k]
    /\ Cardinality(SymbolsOf(top)) = Len(top)
    /\ \A k \in 1 .. (Len(top) - 1) :
          sign * top[k].changePercent >= sign * top[k + 1].changePercent
    /\ \A j \in DOMAIN stocks :
          stocks[j].symbol \notin SymbolsOf(top) =>
              \A k \in DOMAIN top :
                  sign * stocks[j].changePercent <= sign * top[k].changePercent

\* C24: topGainers is the min(5, total) records of the highest change, in
\* non-increasing order, and topLosers the min(5, total) records of the
\* lowest change, in non-decreasing order.
C24_TopFive ==
    IsCalc("overview") =>
        /\ IsTopFive(calc.out.topGainers, calc.out.stocks, 1)
        /\ IsTopFive(calc.out.topLosers, calc.out.stocks, -1)

\* Six records of which the one left out of topGainers is a loser, and the
\* one left out of topLosers a gainer.
C24_Witness ==
    /\ IsCalc("overview")
    /\ Len(calc.out.stocks) = 6
    /\ Len(calc.out.topGainers) = 5
    /\ Len(calc.out.topLosers) = 5
    /\ \E j \in DOMAIN calc.out.stocks :
          /\ calc.out.stocks[j].symbol \notin SymbolsOf(calc.out.topGainers)
          /\ calc.out.stocks[j].changePercent < 0
    /\ \E j \in DOMAIN calc.out.stocks :
          /\ calc.out.stocks[j].symbol \notin SymbolsOf(calc.out.topLosers)
          /\ calc.out.stocks[j].changePercent > 0

\* The successful symbols of the static list of category c.
SuccessfulIn(c) == {i \in Successful : TrackedStocks[i] \in MARKET_CATEGORIES[c]}

\* C25: a category is in the overview of the service exactly when a
\* successful record's symbol is in its static list; its stocks are exactly
\* the successful records of the list, count is their number (at least 1),
\* avgChange their mean change, and no record is in two categories.
C25_Categories ==
    (IsCalc("overview") /\ calc.impl = "service") =>
        LET categories == calc.out.categories
        IN /\ \A c \in DOMAIN MARKET_CATEGORIES :
                 c \in DOMAIN categories <=> SuccessfulIn(c) # {}
           /\ \A c \in DOMAIN categories :
                 /\ {categories[c].stocks[k] : k \in DOMAIN categories[c].stocks}
                       = {RecordOf(i) : i \in SuccessfulIn(c)}
                 /\ Len(categories[c].stocks) = Cardinality(SuccessfulIn(c))
                 /\ categories[c].count = Len(categories[c].stocks)
                 /\ categories[c].count >= 1
                 /\ categories[c].avgChange * categories[c].count
                       = SumOfChanges(categories[c].stocks)
           /\ \A c, d \in DOMAIN categories :
                 c # d => SymbolsOf(categories[c].stocks) \cap SymbolsOf(categories[d].stocks) = {}

\* The same letter, whatever the case.
SameLetter(a, b) == a = b \/ {a, b} \in {{"t", "T"}, {"c", "C"}}

\* query occurs in text at some offset, letter for letter, ignoring case.
OccursIn(query, text) ==
    \E k \in 0 .. (Len(text) - Len(query)) :
        \A j \in 1 .. Len(query) : SameLetter(query[j], text[k + j])

\* The positions of the records searched that match the query.
Matching ==
    {i \in DOMAIN calc.stocks :
        OccursIn(calc.query, calc.stocks[i].symbol) \/ OccursIn(calc.query, calc.stocks[i].name)}

\* C26: search returns exactly the records whose symbol or name contains the
\* query ignoring case, in the order they have in the list, and searching
\* the result again with the same query returns the same list.
C26_SearchFilters ==
    IsCalc("search") =>
        /\ Len(calc.out) = Cardinality(Matching)
        /\ \A k \in DOMAIN calc.out :
              \E i \in Matching :
                 /\ Cardinality({j \in Matching : j <= i}) = k
                 /\ calc.out[k] = calc.stocks[i]
        /\ calc.again = calc.out

\* A query in lower case that matches, in an upper-case symbol only, the
\* first and the last of three records and not the one between them.
C26_Witness ==
    /\ IsCalc("search")
    /\ Len(calc.stocks) = 3
    /\ Matching = {1, 3}
    /\ calc.query # <<>>
    /\ calc.query = lower(calc.query)
    /\ ~Contains(calc.query, calc.stocks[1].symbol)
    /\ ~Contains(calc.query, calc.stocks[1].name)
    /\ calc.out = <<calc.stocks[1], calc.stocks[3]>>

\* ======================================================= the request paths
\* ticker.history(...): no row (data.empty), or the closing prices.
Histories == {<<>>} \cup PriceSeries

\* The two prediction routes of server.py: /api/stock/<symbol>/predict and
\* /api/predict/<symbol>.
ServerPredictRoutes == {"server_predict", "server_api_predict"}

Endpoints == {"server_stock", "handler_stock", "handler_predict"} \cup ServerPredictRoutes

\* prices[-30:]
LastThirty(prices) == SubSeq(prices, Max(1, Len(prices) - 29), Len(prices))

\* np.polyfit(np.arange(len(recent)), recent, 1)[0]: the least-squares slope,
\* of two prices or more.
Slope(recent) ==
    LET n == Len(recent)
        sx == SumSeq([i \in 1 .. n |-> i - 1])
        sxx == SumSeq([i \in 1 .. n |-> (i - 1) * (i - 1)])
        sy == SumSeq(recent)
        sxy == SumSeq([i \in 1 .. n |-> (i - 1) * recent[i]])
    IN Div(n * sxy - sx * sy, n * sxx - sx * sx)

\* simple_forecast(prices, days) of the prediction handler.
simple_forecast(prices, days) ==
    LET trend == Slope(LastThirty(prices))
    IN [i \in 1 .. days |-> prices[Len(prices)] + Div(trend * i * 8, 10)]

\* get_prediction(symbol) of the prediction handler, from the history.
get_prediction(symbol, prices) ==
    IF prices = <<>>
    THEN [error |-> "No data available"]
    ELSE LET forecast == simple_forecast(prices, FORECAST_DAYS)
             std_dev == StdDev(LastThirty(prices))
             margin(i) == Div(Div(1960 * std_dev, 1000) * SqrtOf[i], 1000)
         IN [symbol |-> symbol, currentPrice |-> prices[Len(prices)],
             prediction |->
                 [values |-> forecast,
                  confidenceIntervals |->
                      [i \in DOMAIN forecast |->
                         [lower |-> Max(0, forecast[i] - margin(i)),
                          upper |-> forecast[i] + margin(i)]],
                  sentiment |-> [score |-> 0, label |-> "Neutral", confidence |-> 5000,
                                 article_count |-> 0]],
             timestamp |-> datetime_now]

\* The history response of both stock endpoints.
HistoryResponse(symbol, prices) ==
    [symbol |-> symbol, prices |-> prices, currentPrice |-> prices[Len(prices)],
     previousPrice |-> IF Len(prices) > 1 THEN prices[Len(prices) - 1] ELSE prices[Len(prices)]]

InitApi ==
    /\ now = 0
    /\ tz = 0
    /\ ticks = 0
    /\ stock_prices = EmptyTable
    /\ news_cache = EmptyTable
    /\ predictions = EmptyTable
    /\ last = NoCall
    /\ api_key = FALSE
    /\ polarity = [mock1 |-> MOCK_SCORE_1, mock2 |-> MOCK_SCORE_2]
    /\ ret = NoRet
    /\ OverviewIdle
    /\ CoreIdle

\* What a request leaves in ret: the endpoint, what the provider answered (and
\* whether it was asked), and the status and body of the answer.
Answer(endpoint, symbol, asked, history, status, body) ==
    [op |-> "request", seq |-> ret.seq + 1, endpoint |-> endpoint, key |-> symbol,
     asked |-> asked, history |-> history, status |-> status, body |-> body]

unchangedByApi == <<now, tz, ticks, last, api_key, polarity, ovVars, coreVars>>

\* get_stock_data of server.py: the fresh cached response, or the history of
\* the provider, cached; 404 without history, 500 when ticker.info raises.
ServerStock(symbol, history, info_ok) ==
    /\ ret.seq < MaxCalls
    /\ \E cached \in get_cached_stock_price(stock_prices, symbol, CACHE_TIMEOUT) :
          IF cached # <<>>
          THEN /\ ret' = Answer("server_stock", symbol, FALSE, history, 200, cached[1].data)
               /\ UNCHANGED stock_prices
          ELSE IF history = <<>>
          THEN /\ ret' = Answer("server_stock", symbol, TRUE, history, 404,
                                [error |-> "No data available for this symbol"])
               /\ UNCHANGED stock_prices
          ELSE IF ~info_ok
          THEN /\ ret' = Answer("server_stock", symbol, TRUE, history, 500, [error |-> "str(e)"])
               /\ UNCHANGED stock_prices
          ELSE /\ ret' = Answer("server_stock", symbol, TRUE, history, 200,
                                HistoryResponse(symbol, history))
               /\ stock_prices' = cache_stock_price(stock_prices, symbol, history[Len(history)],
                                                    HistoryResponse(symbol, history))
    /\ UNCHANGED <<news_cache, predictions, unchangedByApi>>

\* get_stock_prediction and get_prediction of server.py: 404 without
\* history, else the result of predict_with_sentiment(symbol, prices); the
\* second route adds a timestamp to the body.
ServerPredict(route, symbol, history, write_ok) ==
    /\ ret.seq < MaxCalls
    /\ IF history = <<>>
       THEN /\ ret' = Answer(route, symbol, TRUE, history, 404,
                             [error |-> "No data available for this symbol"])
            /\ UNCHANGED <<news_cache, predictions>>
       ELSE \E run \in predict_with_sentiment(symbol, history, TRUE, "none", <<>>, write_ok) :
               /\ ret' = Answer(route, symbol, TRUE, history, 200,
                                IF route = "server_predict"
                                THEN [symbol |-> symbol, prediction |-> run.result,
                                      currentPrice |-> history[Len(history)]]
                                ELSE [symbol |-> symbol, prediction |-> run.result,
                                      currentPrice |-> history[Len(history)],
                                      timestamp |-> datetime_now])
               /\ news_cache' = run.news_tbl
               /\ predictions' = run.pred_tbl
    /\ UNCHANGED <<stock_prices, unchangedByApi>>

\* get_stock_data of api/stock.py: 404 without history; ticker.info raising
\* only changes name and currency.
HandlerStock(symbol, history) ==
    /\ ret.seq < MaxCalls
    /\ ret' = IF history = <<>>
              THEN Answer("handler_stock", symbol, TRUE, history, 404,
                          [error |-> "No data available for this symbol"])
              ELSE Answer("handler_stock", symbol, TRUE, history, 200,
                          HistoryResponse(symbol, history))
    /\ UNCHANGED <<dbVars, unchangedByApi>>

\* do_GET of api/predict.py: send_response(200) comes first, then whatever
\* get_prediction returns is written as the body.
HandlerPredict(symbol, history) ==
    /\ ret.seq < MaxCalls
    /\ ret' = Answer("handler_predict", symbol, TRUE, history, 200,
                     get_prediction(symbol, history))
    /\ UNCHANGED <<dbVars, unchangedByApi>>

ApiTick(d) == ret.seq < MaxCalls /\ Tick(d)

NextApi ==
    \/ \E d \in Steps : ApiTick(d)
    \/ \E s \in Symbols, h \in Histories, i \in BOOLEAN : ServerStock(s, h, i)
    \/ \E r \in ServerPredictRoutes, s \in Symbols, h \in Histories, w \in BOOLEAN :
          ServerPredict(r, s, h, w)
    \/ \E s \in Symbols, h \in Histories : HandlerStock(s, h)
    \/ \E s \in Symbols, h \in Histories : HandlerPredict(s, h)

SpecApi == InitApi /\ [][NextApi]_vars

\* C27: when the provider returns an empty history, every history and
\* prediction endpoint answers with a status outside 2xx and a body
\* {error: string}, produces no forecast and writes no price or prediction
\* entry.
C27_NoDataIsAnError ==
    [][(ret'.seq = ret.seq + 1 /\ ret'.op = "request" /\ ret'.asked /\ ret'.history = <<>>) =>
          /\ ret'.status \notin 200 .. 299
          /\ DOMAIN ret'.body = {"error"}
          /\ stock_prices' = stock_prices
          /\ predictions' = predictions]_vars

\* --------------------------------------------------------- append-only puts
\* Every row of table before is a row of table after.
RowsKept(before, after) ==
    \/ after = before
    \/ \A i \in DOMAIN before.rows : \E j \in DOMAIN after.rows : after.rows[j] = before.rows[i]

\* No row of table before is a different row with the same id in table after.
NoRowUpdated(before, after) ==
    \/ after = before
    \/ \A i \in DOMAIN before.rows : \A j \in DOMAIN after.rows :
          after.rows[j].id = before.rows[i].id => after.rows[j] = before.rows[i]

\* C28: cache puts are append-only.  Across any call of cache_stock_price,
\* cache_news or cache_prediction (and any call other than the purge) every
\* row of the three tables is still there with the same key, value and
\* timestamp; only cleanup_old_data removes rows, and no call, the purge
\* included, changes a row in place.
C28_PutsAppendOnly ==
    [][/\ last'.op # "purge" =>
             /\ RowsKept(stock_prices, stock_prices')
             /\ RowsKept(news_cache, news_cache')
             /\ RowsKept(predictions, predictions')
       /\ NoRowUpdated(stock_prices, stock_prices')
       /\ NoRowUpdated(news_cache, news_cache')
       /\ NoRowUpdated(predictions, predictions')]_vars

\* A prediction has been put under a symbol that already had a row with
\* another forecast, written at an earlier time: both rows are in the table.
C28_Witness ==
    /\ last.op = "put"
    /\ last.kind = "prediction"
    /\ \E i, j \in DOMAIN predictions.rows :
          /\ i < j
          /\ j = Len(predictions.rows)
          /\ predictions.rows[i].symbol = predictions.rows[j].symbol
          /\ predictions.rows[i].forecast_data # predictions.rows[j].forecast_data
          /\ predictions.rows[i].created_at < predictions.rows[j].created_at

\* ============================================ predict calls, interleaved
\* The server handles requests on concurrent threads (socketio.run of the
\* threaded development server): the calls of predict_with_sentiment of
\* several requests interleave between their reads and writes of the store.
\* Each thread makes one call; its steps are the store and provider calls of
\* predict_with_sentiment and of the fetch_stock_news it calls.
MaxThreads == 2
Threads == 1 .. MaxThreads

\* met and wrote record, for the claims, which calls were in progress when
\* this one began and whether it has inserted a prediction.
IdleThread ==
    [pc |-> "idle", symbol |-> None, prices |-> <<>>, news |-> <<>>, result |-> <<>>,
     met |-> {}, wrote |-> FALSE]

InProgress == {t \in Threads : threads[t].pc \notin {"idle", "done"}}

\* A step of a call in local state th against the tables news_tbl and
\* pred_tbl, when the provider answers response and the store can (write_ok)
\* or cannot be written: the local states and tables it may leave.
\*   check_cache       db.get_cached_prediction(symbol, max_age_seconds=3600)
\*   read_news         db.get_cached_news(symbol, config.NEWS_CACHE_TIMEOUT)
\*   request           self._fetch_news_from_api(search_query), sentiment added
\*   store_news        db.cache_news(symbol, news); [] when it raises
\*   store_prediction  the result is built and db.cache_prediction called
ThreadSteps(th, news_tbl, pred_tbl, resp, write_ok) ==
    LET left(t2, n2, p2) == [th |-> t2, news_tbl |-> n2, pred_tbl |-> p2]
    IN CASE th.pc = "check_cache" ->
              {left(IF c # <<>>
                    THEN [th EXCEPT !.pc = "done", !.result = c[1].forecast_data]
                    ELSE [th EXCEPT !.pc = "read_news"], news_tbl, pred_tbl)
               : c \in get_cached_prediction(pred_tbl, th.symbol, PREDICTION_MAX_AGE)}
         [] th.pc = "read_news" ->
              {left(IF c # <<>>
                    THEN [th EXCEPT !.pc = "store_prediction", !.news = c]
                    ELSE [th EXCEPT !.pc = "request"], news_tbl, pred_tbl)
               : c \in get_cached_news(news_tbl, th.symbol, NEWS_CACHE_TIMEOUT)}
         [] th.pc = "request" ->
              LET api == fetch_news_from_api(SearchQuery(th.symbol), resp.outcome, resp.batch)
                  news == AddSentiment(api.news)
              IN {left(IF api.raised \/ news = <<>>
                       THEN [th EXCEPT !.pc = "store_prediction", !.news = <<>>]
                       ELSE [th EXCEPT !.pc = "store_news", !.news = news], news_tbl, pred_tbl)}
         [] th.pc = "store_news" ->
              {IF write_ok
               THEN left([th EXCEPT !.pc = "store_prediction"],
                         cache_news(news_tbl, th.symbol, th.news), pred_tbl)
               ELSE left([th EXCEPT !.pc = "store_prediction", !.news = <<>>],
                         news_tbl, pred_tbl)}
         [] th.pc = "store_prediction" ->
              LET result == PredictionResult(th.prices, th.news)
              IN {left([th EXCEPT !.pc = "done", !.result = result], news_tbl,
                       cache_prediction(pred_tbl, th.symbol, result, result.sentiment.score))}
         [] OTHER -> {}

InitThreads ==
    /\ now = 0
    /\ tz = 0
    /\ ticks = 0
    /\ stock_prices = EmptyTable
    /\ news_cache = EmptyTable
    /\ predictions = EmptyTable
    /\ last = NoCall
    /\ api_key \in BOOLEAN
    /\ polarity = [mock1 |-> MOCK_SCORE_1, mock2 |-> MOCK_SCORE_2]
    /\ ret = NoRet
    /\ OverviewIdle
    /\ writer = NoWriter
    /\ batches = {}
    /\ calc = NoCalc
    /\ threads = [t \in Threads |-> IdleThread]
    /\ socketio = NoSocket

unchangedByThreads ==
    <<now, tz, ticks, stock_prices, last, svcVars, ovVars, writer, batches, calc, socketio>>

\* A request arrives: predict_with_sentiment(symbol, prices) is called.
Enter(t, symbol, prices) ==
    /\ threads[t].pc = "idle"
    /\ threads' = [threads EXCEPT ![t] = [IdleThread EXCEPT !.pc = "check_cache",
                                                           !.symbol = symbol,
                                                           !.prices = prices,
                                                           !.met = InProgress]]
    /\ UNCHANGED <<news_cache, predictions, unchangedByThreads>>

\* Thread t takes the step it is at.
TakeStep(t, resp, write_ok) ==
    /\ \E o \in ThreadSteps(threads[t], news_cache, predictions, resp, write_ok) :
          /\ threads' = [threads EXCEPT
                            ![t] = [o.th EXCEPT !.wrote = @ \/ o.pred_tbl # predictions]]
          /\ news_cache' = o.news_tbl
          /\ predictions' = o.pred_tbl
    /\ UNCHANGED unchangedByThreads

NoResponse == [outcome |-> "none", batch |-> <<>>]

CheckCache(t) ==
    /\ threads[t].pc = "check_cache"
    /\ TakeStep(t, NoResponse, TRUE)

ReadNews(t) ==
    /\ threads[t].pc = "read_news"
    /\ TakeStep(t, NoResponse, TRUE)

Request(t, resp) ==
    /\ threads[t].pc = "request"
    /\ TakeStep(t, resp, TRUE)

StoreNews(t, write_ok) ==
    /\ threads[t].pc = "store_news"
    /\ TakeStep(t, NoResponse, write_ok)

StorePrediction(t) ==
    /\ threads[t].pc = "store_prediction"
    /\ TakeStep(t, NoResponse, TRUE)

\* Time passes while the calls are in progress.
ThreadsTick(d) ==
    /\ ticks < MaxTicks
    /\ now' = now + d
    /\ ticks' = ticks + 1
    /\ UNCHANGED <<tz, dbVars, last, svcVars, ovVars, coreVars>>

NextThreads ==
    \/ \E t \in Threads, s \in Symbols, p \in PriceSeries : Enter(t, s, p)
    \/ \E t \in Threads : CheckCache(t)
    \/ \E t \in Threads : ReadNews(t)
    \/ \E t \in Threads, r \in Responses : Request(t, r)
    \/ \E t \in Threads, w \in BOOLEAN : StoreNews(t, w)
    \/ \E t \in Threads : StorePrediction(t)
    \/ \E d \in SvcSteps : ThreadsTick(d)

SpecThreads == InitThreads /\ [][NextThreads]_vars

\* The rows of a table keyed by another symbol than key.
OtherRows(tbl, key) == SelectSeq(tbl.rows, LAMBDA r : r.symbol # key)

\* The table as it would be had only the calls for key been made: the rows
\* of key, numbered by the store as they were inserted.
OnlyKey(tbl, key) ==
    LET rows == SelectSeq(tbl.rows, LAMBDA r : r.symbol = key)
    IN [rows |-> [i \in DOMAIN rows |-> [rows[i] EXCEPT !.id = i]], next |-> Len(rows) + 1]

\* What a call holds and returns, row ids of the news items it has read aside.
ViewOf(th) ==
    [pc |-> th.pc, symbol |-> th.symbol, prices |-> th.prices, result |-> th.result,
     news |-> [i \in DOMAIN th.news |->
                 [title |-> th.news[i].title,
                  sentiment_score |-> th.news[i].sentiment_score,
                  published |-> IF "published_at" \in DOMAIN th.news[i]
                                THEN th.news[i].published_at ELSE th.news[i].publishedAt,
                  cached |-> "cached_at" \in DOMAIN th.news[i]]]]

\* C29: no cross-symbol interference.  In every interleaving of predict
\* calls, a step of a call for symbol A leaves the rows of the news and
\* prediction tables that are keyed by another symbol as they were, and it
\* reads, holds and returns what it would against tables holding only the
\* rows of A: the result of a call is the one it would return had the calls
\* for other symbols not run.
C29_NoCrossSymbolInterference ==
    [][\A t \in Threads :
          (threads[t].pc # "idle" /\ threads'[t] # threads[t]) =>
              LET A == threads[t].symbol
              IN /\ OtherRows(news_cache', A) = OtherRows(news_cache, A)
                 /\ OtherRows(predictions', A) = OtherRows(predictions, A)
                 /\ \E r \in Responses, w \in BOOLEAN :
                       \E o \in ThreadSteps(threads[t], OnlyKey(news_cache, A),
                                            OnlyKey(predictions, A), r, w) :
                          ViewOf(o.th) = ViewOf(threads'[t])]_vars

\* Two calls for different symbols have interleaved and both have computed
\* and stored a forecast with news: the second thread stored its news first,
\* the first thread its prediction first.
C29_Witness ==
    /\ threads # <<>>
    /\ threads[1].pc = "done"
    /\ threads[2].pc = "done"
    /\ threads[1].symbol # threads[2].symbol
    /\ Len(news_cache.rows) >= 2
    /\ Len(predictions.rows) = 2
    /\ news_cache.rows[1].symbol = threads[2].symbol
    /\ news_cache.rows[Len(news_cache.rows)].symbol = threads[1].symbol
    /\ predictions.rows[1].symbol = threads[1].symbol
    /\ predictions.rows[2].symbol = threads[2].symbol
    /\ threads[2].result.news_count > 0

\* ------------------------------------------------------ AR coefficients
SumAbs(xs) == SumSeq([i \in DOMAIN xs |-> Abs(xs[i])])

\* C30: the estimation returns exactly p coefficients; the raw coefficient of
\* every lag >= the length of the differenced series is 0; the absolute
\* values of the normalised coefficients sum to 0.8 (800 thousandths, less
\* the truncation of at most one thousandth per coefficient), unless every
\* raw coefficient is 0, and then every coefficient is 0.
C30_ArCoefficients ==
    IsCalc("forecast") =>
        /\ Len(calc.coefficients) = ARIMA_P
        /\ Len(calc.raw_coefficients) = ARIMA_P
        /\ \A lag \in 1 .. ARIMA_P :
              lag >= Len(calc.diff_data) => calc.raw_coefficients[lag] = 0
        /\ IF \A lag \in 1 .. ARIMA_P : calc.raw_coefficients[lag] = 0
           THEN \A lag \in 1 .. ARIMA_P : calc.coefficients[lag] = 0
           ELSE /\ SumAbs(calc.coefficients) <= 800
                /\ SumAbs(calc.coefficients) > 800 - ARIMA_P

\* The coefficients of a series whose differenced series is shorter than p
\* and has raw coefficients of both signs, none a whole share of the total.
C30_Witness ==
    /\ IsCalc("forecast")
    /\ Len(calc.diff_data) \in 2 .. (ARIMA_P - 1)
    /\ \E i, j \in 1 .. ARIMA_P : calc.raw_coefficients[i] < 0 /\ calc.raw_coefficients[j] > 0
    /\ SumAbs(calc.coefficients) \in (800 - ARIMA_P + 1) .. 799
    /\ calc.coefficients[ARIMA_P] = 0

\* ------------------------------------------------- intervals of a forecast
\* C31: in every confidence interval predict returns, 0 <= lower <= value <=
\* upper, whatever the price series and the sentiment, also where a forecast
\* value is zero or negative.
C31_IntervalsBracketValue ==
    Forecasted =>
        \A i \in 1 .. FORECAST_DAYS :
           /\ 0 <= calc.intervals[i].lower
           /\ calc.intervals[i].lower <= calc.values[i]
           /\ calc.values[i] <= calc.intervals[i].upper

\* ------------------------------------------------------------ time scales
\* The rows of table tbl that a purge of the given age must keep (their age
\* is at most max_age) and may keep (it is not above max_age).
NotOlder(tbl, stamp, max_age) ==
    SelectSeq(tbl.rows, LAMBDA r : now - r[stamp] <= max_age)

\* C32: freshness depends on elapsed time only, whatever the offset of the
\* host's local clock from the store's clock.  A get of a symbol's entries
\* returns something when a row of the key is younger than max_age and
\* returns no entry older than max_age; a purge leaves exactly the rows
\* that are not older than its age.
C32_ElapsedTimeOnly ==
    [][/\ (last'.op = "get" /\ last'.key # None) =>
             /\ (\E r \in RowsOf(last'.kind, last'.key) :
                    now - WrittenAt(last'.kind, r) < last'.max_age) => last'.value # <<>>
             /\ \A i \in DOMAIN last'.value :
                    now - WrittenAt(last'.kind, last'.value[i]) <= last'.max_age
       /\ last'.op = "purge" =>
             /\ stock_prices'.rows = NotOlder(stock_prices, StampOfPrice, last'.max_age)
             /\ news_cache'.rows = NotOlder(news_cache, StampOfNews, last'.max_age)
             /\ predictions'.rows = NotOlder(predictions, StampOfPrediction, last'.max_age)]_vars

\* ----------------------------------------------------- overlapping calls
\* Two calls overlap in time: one began while the other was in progress.
Overlap(t, u) == u \in threads[t].met \/ t \in threads[u].met

\* C33: no cache stampede on predictions.  Of two predict calls for the same
\* symbol (use_cache=True) that overlap in time on a cache without a fresh
\* prediction, at most one computes a forecast and writes a prediction
\* entry, and both return the same result.
C33_NoStampede ==
    \A t, u \in DOMAIN threads :
        (/\ t # u
         /\ threads[t].pc = "done" /\ threads[u].pc = "done"
         /\ threads[t].symbol = threads[u].symbol
         /\ Overlap(t, u)
         /\ threads[t].wrote \/ threads[u].wrote)
        => /\ ~(threads[t].wrote /\ threads[u].wrote)
           /\ threads[t].result = threads[u].result

\* ------------------------------------------------- predict without cache
\* C34: predict(symbol, prices, use_cache=False) consults no cache: it does
\* not read the prediction cache, its news come from a call of the provider
\* and not from a cached batch (the news table is not read), and it writes
\* the result it returns as a new prediction entry of the symbol.
C34_BypassConsultsNoCache ==
    [][(IsCall("predict") /\ ~ret'.use_cache) =>
          /\ ~ret'.cache_read
          /\ ret'.api_calls = 1
          /\ Appended(predictions, predictions', 1)
          /\ LET row == predictions'.rows[Len(predictions'.rows)]
             IN row.symbol = ret'.key /\ json_loads(row.forecast_data) = ret'.result]_vars

\* ===================================================== WebSocket clients
\* server.py keeps the number of connected clients in the global
\* active_connections.  handle_connect and handle_disconnect run on the
\* thread of the client's connection and execute `active_connections += 1`
\* (`-= 1`): a load of the global, an addition and a store, with no lock, so
\* that another handler's load or store can fall between them.  The broadcast
\* task is another thread: it sleeps, tests active_connections > 0, fetches
\* the overview and emits it.
MaxClients == 2
MaxConnects == 3
Clients == 1 .. MaxClients

\* A client: whether its connection is open, where its handler is, and the
\* value of the global the handler has loaded.
AwayClient == [st |-> "away", pc |-> "idle", loaded |-> 0]

InitSocket ==
    /\ now = 0
    /\ tz = 0
    /\ ticks = 0
    /\ stock_prices = EmptyTable
    /\ news_cache = EmptyTable
    /\ predictions = EmptyTable
    /\ last = NoCall
    /\ api_key = FALSE
    /\ polarity = [mock1 |-> MOCK_SCORE_1, mock2 |-> MOCK_SCORE_2]
    /\ ret = NoRet
    /\ OverviewIdle
    /\ writer = NoWriter
    /\ batches = {}
    /\ calc = NoCalc
    /\ threads = <<>>
    /\ socketio = [NoSocket EXCEPT !.clients = [c \in Clients |-> AwayClient]]

unchangedBySocket ==
    <<now, tz, ticks, dbVars, last, svcVars, ovVars, writer, batches, calc, threads>>

\* A client opens a connection: the 'connect' event starts handle_connect.
ClientConnects(c) ==
    /\ socketio.connects < MaxConnects
    /\ socketio.clients[c] = AwayClient
    /\ socketio' = [socketio EXCEPT !.clients[c] = [st |-> "connected", pc |-> "connect_load",
                                                    loaded |-> 0],
                                    !.connects = @ + 1]
    /\ UNCHANGED unchangedBySocket

\* active_connections += 1: the load ...
HandleConnectLoad(c) ==
    /\ socketio.clients[c].pc = "connect_load"
    /\ socketio' = [socketio EXCEPT !.clients[c].pc = "connect_store",
                                    !.clients[c].loaded = socketio.active_connections]
    /\ UNCHANGED unchangedBySocket

\* ... and the store.
HandleConnectStore(c) ==
    /\ socketio.clients[c].pc = "connect_store"
    /\ socketio' = [socketio EXCEPT !.active_connections = socketio.clients[c].loaded + 1,
                                    !.clients[c].pc = "idle"]
    /\ UNCHANGED unchangedBySocket

\* The client's connection closes: the 'disconnect' event starts
\* handle_disconnect.
ClientDisconnects(c) ==
    /\ socketio.clients[c].st = "connected"
    /\ socketio.clients[c].pc = "idle"
    /\ socketio' = [socketio EXCEPT !.clients[c].st = "away",
                                    !.clients[c].pc = "disconnect_load"]
    /\ UNCHANGED unchangedBySocket

\* active_connections -= 1: the load ...
HandleDisconnectLoad(c) ==
    /\ socketio.clients[c].pc = "disconnect_load"
    /\ socketio' = [socketio EXCEPT !.clients[c].pc = "disconnect_store",
                                    !.clients[c].loaded = socketio.active_connections]
    /\ UNCHANGED unchangedBySocket

\* ... and the store.
HandleDisconnectStore(c) ==
    /\ socketio.clients[c].pc = "disconnect_store"
    /\ socketio' = [socketio EXCEPT !.active_connections = socketio.clients[c].loaded - 1,
                                    !.clients[c] = AwayClient]
    /\ UNCHANGED unchangedBySocket

\* broadcast_market_updates wakes up: if active_connections > 0 it goes on to
\* fetch, otherwise it sleeps again.
BroadcastWakes ==
    /\ socketio.broadcaster = "sleep"
    /\ socketio.active_connections > 0
    /\ socketio' = [socketio EXCEPT !.broadcaster = "fetch"]
    /\ UNCHANGED unchangedBySocket

\* market_service.fetch_market_overview(use_cache=False): it returns, or it
\* raises and the iteration ends.
BroadcastFetches(ok) ==
    /\ socketio.broadcaster = "fetch"
    /\ socketio' = [socketio EXCEPT !.broadcaster = IF ok THEN "emit" ELSE "sleep"]
    /\ UNCHANGED unchangedBySocket

\* socketio.emit('market_update', ...)
BroadcastEmits ==
    /\ socketio.broadcaster = "emit"
    /\ socketio' = [socketio EXCEPT !.broadcaster = "sleep"]
    /\ UNCHANGED unchangedBySocket

NextSocket ==
    \/ \E c \in Clients : ClientConnects(c)
    \/ \E c \in Clients : HandleConnectLoad(c)
    \/ \E c \in Clients : HandleConnectStore(c)
    \/ \E c \in Clients : ClientDisconnects(c)
    \/ \E c \in Clients : HandleDisconnectLoad(c)
    \/ \E c \in Clients : HandleDisconnectStore(c)
    \/ BroadcastWakes
    \/ \E ok \in BOOLEAN : BroadcastFetches(ok)
    \/ BroadcastEmits

SpecSocket == InitSocket /\ [][NextSocket]_vars

\* The clients whose connection is open.
Connected == {c \in DOMAIN socketio.clients : socketio.clients[c].st = "connected"}

\* No connect or disconnect handler is in progress.
HandlersIdle == \A c \in DOMAIN socketio.clients : socketio.clients[c].pc = "idle"

\* C35: under any interleaving of the connect and disconnect handlers,
\* active_connections is never negative, it is the number of connected
\* clients whenever no handler is in progress, and the broadcast task goes
\* on to fetch and emit only when a client is connected (tested, like the
\* count, while no handler is in progress).
C35_CounterIsConnectedClients ==
    [][/\ socketio'.active_connections >= 0
       /\ HandlersIdle' => socketio'.active_connections = Cardinality(Connected')
       /\ (HandlersIdle /\ socketio.broadcaster = "sleep" /\ socketio'.broadcaster = "fetch")
             => Connected # {}]_vars

\* ========================================================= the daily purge
\* server.py runs db.cleanup_old_data(days=7) once a day on a thread of its
\* own, while the request paths put entries and read them with their TTLs:
\* prices 300 s, news 1800 s, predictions 3600 s.  Time passes in steps of
\* minutes and of days.
PurgeSteps == {299, 4 * SECONDS_PER_DAY}

NextPurge ==
    \/ \E d \in PurgeSteps : Tick(d)
    \/ \E s \in Symbols, p \in Prices : PutPrice(s, p)
    \/ \E s \in Symbols : GetPrice(s, CACHE_TIMEOUT)
    \/ \E k \in NewsKeys, b \in Batches : PutNews(k, b)
    \/ \E k \in NewsKeys : GetNews(k, NEWS_CACHE_TIMEOUT)
    \/ \E s \in Symbols, f \in Forecasts : PutPrediction(s, f)
    \/ \E s \in Symbols : GetPrediction(s, PREDICTION_MAX_AGE)
    \/ Cleanup(CLEANUP_DAYS)

SpecPurge == Init /\ [][NextPurge]_vars

\* C36: the daily purge never changes what the request paths can read.  For
\* every key, what a get with the TTL of its kind may return right after the
\* purge is what it may return right before it.
C36_PurgeInvisibleToReads ==
    [][last'.op = "purge" =>
          /\ \A s \in Symbols :
                /\ get_cached_stock_price(stock_prices', s, CACHE_TIMEOUT)
                      = get_cached_stock_price(stock_prices, s, CACHE_TIMEOUT)
                /\ get_cached_prediction(predictions', s, PREDICTION_MAX_AGE)
                      = get_cached_prediction(predictions, s, PREDICTION_MAX_AGE)
          /\ \A k \in NewsKeys :
                get_cached_news(news_cache', k, NEWS_CACHE_TIMEOUT)
                   = get_cached_news(news_cache, k, NEWS_CACHE_TIMEOUT)]_vars

\* A purge has just removed a row of a table that still holds a row a read
\* returns.
C36_Witness ==
    /\ last.op = "purge"
    /\ last.max_age = CLEANUP_DAYS * SECONDS_PER_DAY
    /\ Len(predictions.rows) < predictions.next - 1
    /\ \E s \in Symbols : get_cached_prediction(predictions, s, PREDICTION_MAX_AGE) # {<<>>}

====
